---- MODULE Spec2Model ----
(***************************************************************************)
(* Verification model of the MAA-ERP hierarchical tree engine.             *)
(*                                                                         *)
(*  Part I   - useTreeState: nested designer tree with snapshot undo/redo  *)
(*  Part II  - usePayanarssTypes: the flat Id/ParentId record store        *)
(*  Part III - payanarssTypeImportUtils: the validated import pipeline     *)
(*  Part IV  - maa-erp hierarchyBuilder: the index over the flat store     *)
(*  Part V   - maa-erp useBusinessSetup: the drill-down navigator          *)
(***************************************************************************)
EXTENDS Integers, Sequences, FiniteSets, TLC

VARIABLES
    root,        \* useTreeState: the live nested tree (PTNode[])
    selectedId,  \* useTreeState: selected node id, NoId for null
    clipboard,   \* useTreeState: <<>> for null, <<node>> otherwise
    history,     \* useTreeState: historyRef.current
    historyIdx,  \* useTreeState: historyIdxRef.current (0-based)
    idCounter,   \* useTreeState.ts module variable idCounter
    lastOp,      \* the handler that ran last, its arguments and the tree it saw
    types,       \* usePayanarssTypes: the flat record store (PayanarssType[])
    saveTimeout, \* usePayanarssTypes: <<>> or <<payload>> of the pending save timer
    savedFile,   \* the payloads saveToFile has posted, oldest first
    genCount,    \* number of ids generateId has handed out
    storeOp,     \* the store mutation that ran last and the store it saw
    importPc,    \* handlePayanarssTypeImport: the step to run next
    rawData,     \* handlePayanarssTypeImport: content of the uploaded file
    selectedParentId,   \* handlePayanarssTypeImport: the attachment point
    existingRecords,    \* handlePayanarssTypeImport: records already in the system
    idMap,              \* handlePayanarssTypeImport: source Id -> new Id
    transformedRecords, \* handlePayanarssTypeImport: output of flattenAndTransform
    importResult,       \* handlePayanarssTypeImport: <<>> or <<ImportResult>>
    uuidCount,          \* number of ids uuidv4 has handed out
    allTypes,           \* maa-erp: the flat array handed to buildHierarchyIndex
    hierarchyIndex,     \* buildHierarchyIndex: byId, childrenOf, roots, totalCount, descendantCount
    indexPc,            \* buildHierarchyIndex: "idle", "pass1", "pass2", "pass3", "built", "threw"
    navigationStack,    \* useBusinessSetup: ids drilled into, the last one on top
    navOp,              \* the navigator action that ran last, its argument, the stack it saw
    ancestorPath        \* getAncestorPath: the call in progress and the path it returned

treeVars == <<root, selectedId, clipboard, history, historyIdx, idCounter, lastOp>>
storeVars == <<types, saveTimeout, savedFile, genCount, storeOp>>
importVars == <<importPc, rawData, selectedParentId, existingRecords, idMap,
                transformedRecords, importResult, uuidCount>>
indexVars == <<allTypes, hierarchyIndex, indexPc, navigationStack, navOp, ancestorPath>>
vars == <<treeVars, storeVars, importVars, indexVars>>

(***************************************************************************)
(* Bounds of the model                                                     *)
(***************************************************************************)
MaxCalls == 3       \* handler calls explored from the initial state

MaxStoreCalls == 3  \* store mutations explored from the initial state
MaxImportNodes == 3 \* nodes, at all depths, of an uploaded document
MaxStoreSize == 3   \* records of an exported store
MaxIndexNodes == 3  \* records of the array handed to buildHierarchyIndex

(***************************************************************************)
(* The parts of the program that a specification leaves at rest            *)
(***************************************************************************)
\* usePayanarssTypes right after construction: useState([]), no timer
StoreAtRest ==
    /\ types = <<>>
    /\ saveTimeout = <<>>
    /\ savedFile = <<>>
    /\ genCount = 0
    /\ storeOp = [op |-> "init", id |-> "", arg |-> <<>>, pre |-> <<>>, threw |-> FALSE,
                 set |-> FALSE, n |-> 0]

\* handlePayanarssTypeImport has not been called
ImportAtRest ==
    /\ importPc = "idle"
    /\ rawData = [t |-> "array", v |-> <<>>]
    /\ selectedParentId = ""
    /\ existingRecords = <<>>
    /\ idMap = <<>>
    /\ transformedRecords = <<>>
    /\ importResult = <<>>
    /\ uuidCount = 0

\* buildHierarchyIndex has not been called
EmptyIndex ==
    [byId |-> <<>>, childrenOf |-> <<>>, roots |-> <<>>, totalCount |-> 0,
     descendantCount |-> <<>>]

\* useState<string[]>([]) and no call of getAncestorPath
NavAtRest ==
    /\ navigationStack = <<>>
    /\ navOp = [op |-> "init", id |-> "", level |-> 0, pre |-> <<>>]
    /\ ancestorPath = [pc |-> "idle", nodeId |-> "", path |-> <<>>]

IndexAtRest ==
    /\ allTypes = <<>>
    /\ hierarchyIndex = EmptyIndex
    /\ indexPc = "idle"
    /\ NavAtRest

(***************************************************************************)
(* Part I - useTreeState                                                   *)
(***************************************************************************)
IdCounterStart == 1000
HistoryLimit == 50
NoId == 0

\* useTreeState right after construction: empty tree, history [[]]
TreeAtRest ==
    /\ root = <<>>
    /\ selectedId = NoId
    /\ clipboard = <<>>
    /\ history = <<<<>>>>
    /\ historyIdx = 0
    /\ idCounter = IdCounterStart
    /\ lastOp = [op |-> "init", a |-> NoId, b |-> NoId, pos |-> "", pre |-> <<>>,
                 preIdx |-> 0, discarded |-> 0, pushed |-> FALSE, afterPush |-> FALSE,
                 n |-> 0]

\* const newId = () => `node-${++idCounter}`; the id "node-n" is modelled as n
newId(counter) == counter + 1

\* JSON.parse(JSON.stringify(obj)) of a tree of plain PTNode values
clone(obj) == obj

PTNode(id, name, level, children) ==
    [id |-> id, name |-> name, level |-> level, expanded |-> FALSE, children |-> children]

\* CHILD_LEVEL: L1 -> L2, ..., L4 -> L5, L5 -> null (0)
CHILD_LEVEL(level) == IF level < 5 THEN level + 1 ELSE 0

RECURSIVE IdSeq(_)
\* ids of all nodes, in pre-order, with repetitions
IdSeq(nodes) ==
    IF nodes = <<>> THEN <<>>
    ELSE <<Head(nodes).id>> \o IdSeq(Head(nodes).children) \o IdSeq(Tail(nodes))

Range(s) == {s[i] : i \in DOMAIN s}
IdsIn(nodes) == Range(IdSeq(nodes))

\* countNodes
countNodes(nodes) == Len(IdSeq(nodes))

RECURSIVE PathOf(_, _, _)
\* index path of the node findNode returns (first match of a pre-order walk),
\* <<>> when there is none; i is the position of the for-loop
PathOf(nodes, i, id) ==
    IF i > Len(nodes) THEN <<>>
    ELSE IF nodes[i].id = id THEN <<i>>
    ELSE LET found == PathOf(nodes[i].children, 1, id)
         IN  IF found # <<>> THEN <<i>> \o found ELSE PathOf(nodes, i + 1, id)

RECURSIVE NodeAt(_, _)
NodeAt(nodes, path) ==
    IF Len(path) = 1 THEN nodes[path[1]]
    ELSE NodeAt(nodes[path[1]].children, Tail(path))

RECURSIVE ReplaceAt(_, _, _)
\* the tree with the node at path assigned (the in-place writes of the handlers)
ReplaceAt(nodes, path, node) ==
    IF Len(path) = 1 THEN [nodes EXCEPT ![path[1]] = node]
    ELSE [nodes EXCEPT ![path[1]].children = ReplaceAt(@, Tail(path), node)]

\* findNode: <<>> for null, <<node>> otherwise
findNode(nodes, id) ==
    LET p == PathOf(nodes, 1, id) IN IF p = <<>> THEN <<>> ELSE <<NodeAt(nodes, p)>>

\* path of the node findParent returns: <<>> when the id is at top level or absent
ParentPathOf(nodes, id) ==
    LET p == PathOf(nodes, 1, id) IN IF Len(p) < 2 THEN <<>> ELSE SubSeq(p, 1, Len(p) - 1)

findParent(nodes, id) ==
    LET pp == ParentPathOf(nodes, id) IN IF pp = <<>> THEN <<>> ELSE <<NodeAt(nodes, pp)>>

\* Array.prototype.findIndex(c => c.id === id), 0-based, -1 when absent
findIndex(arr, id) ==
    IF \E i \in DOMAIN arr : arr[i].id = id
    THEN (CHOOSE i \in DOMAIN arr : arr[i].id = id /\ \A j \in 1..(i - 1) : arr[j].id # id) - 1
    ELSE -1

\* Array.prototype.splice(start, 0, item) with a 0-based start
splice(arr, start, item) ==
    LET len == Len(arr)
        s == IF start < 0 THEN (IF len + start < 0 THEN 0 ELSE len + start)
             ELSE IF start > len THEN len ELSE start
    IN  SubSeq(arr, 1, s) \o <<item>> \o SubSeq(arr, s + 1, len)

RECURSIVE removeFilter(_, _)
\* removeNode's filter: drops every node with the id, at any depth
removeFilter(arr, id) ==
    IF arr = <<>> THEN <<>>
    ELSE IF Head(arr).id = id THEN removeFilter(Tail(arr), id)
    ELSE <<[Head(arr) EXCEPT !.children = removeFilter(@, id)]>> \o removeFilter(Tail(arr), id)

RECURSIVE removedOf(_, _)
\* removeNode's `removed`: the last node the filter dropped, <<>> for null
removedOf(arr, id) ==
    IF arr = <<>> THEN <<>>
    ELSE LET rest == removedOf(Tail(arr), id)
             here == IF Head(arr).id = id THEN <<Head(arr)>>
                     ELSE removedOf(Head(arr).children, id)
         IN  IF rest # <<>> THEN rest ELSE here

removeNode(nodes, id) ==
    [tree |-> removeFilter(clone(nodes), id), removed |-> removedOf(nodes, id)]

RECURSIVE reassignIds(_, _)
RECURSIVE reassignList(_, _)
\* reassignIds: a fresh id for the node, then for its children left to right;
\* returns the copy and the counter after the last newId()
reassignIds(n, counter) ==
    LET kids == reassignList(n.children, newId(counter))
    IN  [node |-> [n EXCEPT !.id = newId(counter), !.children = kids.nodes],
         counter |-> kids.counter]
reassignList(nodes, counter) ==
    IF nodes = <<>> THEN [nodes |-> <<>>, counter |-> counter]
    ELSE LET h == reassignIds(Head(nodes), counter)
             t == reassignList(Tail(nodes), h.counter)
         IN  [nodes |-> <<h.node>> \o t.nodes, counter |-> t.counter]


\* pushHistory without the slice that drops the snapshots ahead of the cursor
pushHistoryKeepTail(h, idx, newRoot) ==
    LET cut == h \o <<clone(newRoot)>>
        kept == IF Len(cut) > HistoryLimit THEN Tail(cut) ELSE cut
    IN  [history |-> kept, idx |-> Len(kept) - 1]

\* pushHistory without the shift that keeps the history at 50 entries
pushHistoryUnbounded(h, idx, newRoot) ==
    [history |-> SubSeq(h, 1, idx + 1) \o <<clone(newRoot)>>, idx |-> idx + 1]

\* pushHistory: drop the redo tail, append the snapshot, keep at most 50
pushHistory(h, idx, newRoot) ==
    LET cut == SubSeq(h, 1, idx + 1) \o <<clone(newRoot)>>
        kept == IF Len(cut) > HistoryLimit THEN Tail(cut) ELSE cut
    IN  [history |-> kept, idx |-> Len(kept) - 1]

(* What a handler does to the hook's state, given the values its closure   *)
(* holds: tree is the root passed to setRoot, push says whether pushHistory *)
(* ran (updateRoot), counter is idCounter afterwards, selected is the       *)
(* selection afterwards.                                                    *)
Outcome(tree, push, counter, selected) ==
    [tree |-> tree, push |-> push, counter |-> counter, selected |-> selected]

NoChange(r, counter, sel) == Outcome(r, FALSE, counter, sel)

\* toggleExpand: setRoot only, no history entry
toggleExpand(r, counter, sel, id) ==
    LET newRoot == clone(r)
        p == PathOf(newRoot, 1, id)
    IN  IF p = <<>> THEN Outcome(newRoot, FALSE, counter, sel)
        ELSE Outcome(ReplaceAt(newRoot, p, [NodeAt(newRoot, p) EXCEPT !.expanded = ~@]),
                     FALSE, counter, sel)

RECURSIVE setExpanded(_, _)
setExpanded(nodes, value) ==
    IF nodes = <<>> THEN <<>>
    ELSE <<[Head(nodes) EXCEPT !.expanded = value, !.children = setExpanded(@, value)]>>
         \o setExpanded(Tail(nodes), value)

expandAll(r, counter, sel) == Outcome(setExpanded(clone(r), TRUE), FALSE, counter, sel)
collapseAll(r, counter, sel) == Outcome(setExpanded(clone(r), FALSE), FALSE, counter, sel)

addChild(r, counter, sel, parentId) ==
    LET newRoot == clone(r)
        p == PathOf(newRoot, 1, parentId)
    IN  IF p = <<>> THEN NoChange(r, counter, sel)
        ELSE LET parent == NodeAt(newRoot, p)
                 childLevel == CHILD_LEVEL(parent.level)
                 child == PTNode(newId(counter), <<"New Node">>, childLevel, <<>>)
             IN  IF childLevel = 0 THEN NoChange(r, counter, sel)
                 ELSE Outcome(ReplaceAt(newRoot, p,
                                  [parent EXCEPT !.children = Append(@, child), !.expanded = TRUE]),
                              TRUE, newId(counter), child.id)

\* the tree with node put right after the first sibling named id, in the list
\* findParent designates (the top level when findParent returns null)
insertAfter(newRoot, id, node) ==
    LET pp == ParentPathOf(newRoot, id)
    IN  IF pp # <<>>
        THEN LET parent == NodeAt(newRoot, pp)
                 idx == findIndex(parent.children, id)
             IN  ReplaceAt(newRoot, pp, [parent EXCEPT !.children = splice(@, idx + 1, node)])
        ELSE splice(newRoot, findIndex(newRoot, id) + 1, node)

addSibling(r, counter, sel, nodeId) ==
    LET newRoot == clone(r)
        found == findNode(newRoot, nodeId)
    IN  IF found = <<>> THEN NoChange(r, counter, sel)
        ELSE LET sibling == PTNode(newId(counter), <<"New Node">>, found[1].level, <<>>)
             IN  Outcome(insertAfter(newRoot, nodeId, sibling), TRUE, newId(counter), sibling.id)

addRootModule(r, counter, sel) ==
    LET mod == PTNode(newId(counter), <<"New Module">>, 1, <<>>)
    IN  Outcome(Append(clone(r), mod), TRUE, newId(counter), mod.id)

deleteNode(r, counter, sel, id) ==
    Outcome(removeNode(r, id).tree, TRUE, counter, IF sel = id THEN NoId ELSE sel)

duplicateNode(r, counter, sel, id) ==
    LET newRoot == clone(r)
        found == findNode(newRoot, id)
    IN  IF found = <<>> THEN NoChange(r, counter, sel)
        ELSE LET re == reassignIds(clone(found[1]), counter)
                 dup == [re.node EXCEPT !.name = @ \o <<"(copy)">>]
             IN  Outcome(insertAfter(newRoot, id, dup), TRUE, re.counter, dup.id)

\* updateNode with the single-key update the properties panel issues
updateNode(r, counter, sel, id, name) ==
    LET newRoot == clone(r)
        p == PathOf(newRoot, 1, id)
    IN  IF p = <<>> THEN NoChange(r, counter, sel)
        ELSE Outcome(ReplaceAt(newRoot, p, [NodeAt(newRoot, p) EXCEPT !.name = name]),
                     TRUE, counter, sel)

\* copyNode: the clipboard afterwards
copyNode(r, clip, id) ==
    LET found == findNode(r, id) IN IF found # <<>> THEN <<clone(found[1])>> ELSE clip

pasteInto(r, counter, sel, clip, parentId) ==
    IF clip = <<>> THEN NoChange(r, counter, sel)
    ELSE LET newRoot == clone(r)
             p == PathOf(newRoot, 1, parentId)
         IN  IF p = <<>> THEN NoChange(r, counter, sel)
             ELSE LET re == reassignIds(clone(clip[1]), counter)
                      parent == NodeAt(newRoot, p)
                  IN  Outcome(ReplaceAt(newRoot, p,
                                  [parent EXCEPT !.children = Append(@, re.node), !.expanded = TRUE]),
                              TRUE, re.counter, re.node.id)

\* moveNode's "inside" branch without its `if (!dropNode) return`: a drop
\* target that is gone after the removal lets the dragged node land at top level
moveInsideUnguarded(r, counter, sel, tree, removed, dropId) ==
    LET p == PathOf(tree, 1, dropId)
    IN  IF p = <<>> THEN Outcome(Append(tree, removed), TRUE, counter, sel)
        ELSE Outcome(ReplaceAt(tree, p,
                         [NodeAt(tree, p) EXCEPT !.children = Append(@, removed), !.expanded = TRUE]),
                     TRUE, counter, sel)

\* moveNode, position "inside": the drop target is looked up after the removal
moveInside(r, counter, sel, tree, removed, dropId) ==
    LET p == PathOf(tree, 1, dropId)
    IN  IF p = <<>> THEN NoChange(r, counter, sel)
        ELSE Outcome(ReplaceAt(tree, p,
                         [NodeAt(tree, p) EXCEPT !.children = Append(@, removed), !.expanded = TRUE]),
                     TRUE, counter, sel)

\* moveNode, position "before" / "after": no lookup of the drop target guards
\* the splice; findIndex's -1 is used as it comes
moveBeside(r, counter, sel, tree, removed, dropId, position) ==
    LET pp == ParentPathOf(tree, dropId)
        siblings == IF pp # <<>> THEN NodeAt(tree, pp).children ELSE tree
        idx == findIndex(siblings, dropId)
        placed == splice(siblings, IF position = "before" THEN idx ELSE idx + 1, removed)
    IN  Outcome(IF pp # <<>> THEN ReplaceAt(tree, pp, [NodeAt(tree, pp) EXCEPT !.children = placed])
                ELSE placed,
                TRUE, counter, sel)

moveNode(r, counter, sel, dragId, dropId, position) ==
    IF dragId = dropId THEN NoChange(r, counter, sel)
    ELSE LET rm == removeNode(clone(r), dragId)
         IN  IF rm.removed = <<>> THEN NoChange(r, counter, sel)
             ELSE IF position = "inside"
                  THEN moveInside(r, counter, sel, rm.tree, rm.removed[1], dropId)
                  ELSE moveBeside(r, counter, sel, rm.tree, rm.removed[1], dropId, position)

importJson(r, counter, sel, doc) ==
    IF doc.valid THEN Outcome(doc.tree, TRUE, counter, NoId) ELSE NoChange(r, counter, sel)

clearTree(r, counter, sel) == Outcome(<<>>, TRUE, counter, NoId)


\* undo / redo: the cursor and the tree passed to setRoot
undo(h, idx, r) ==
    IF idx <= 0 THEN [idx |-> idx, tree |-> r]
    ELSE [idx |-> idx - 1, tree |-> clone(h[(idx - 1) + 1])]

redo(h, idx, r) ==
    IF idx >= Len(h) - 1 THEN [idx |-> idx, tree |-> r]
    ELSE [idx |-> idx + 1, tree |-> clone(h[(idx + 1) + 1])]

(***************************************************************************)
(* Inputs of the tree handlers                                             *)
(***************************************************************************)
\* documents handed to importJson / loadTree: a small catalog, and a document
\* exported by an earlier session of the designer (ids restart at node-1001
\* on every page load)
CatalogTree == <<PTNode(1, <<"Catalog">>, 1, <<PTNode(2, <<"Field">>, 5, <<>>)>>)>>
SessionTree == <<PTNode(1, <<"Catalog">>, 1, <<PTNode(1001, <<"New Node">>, 2, <<>>)>>)>>
ImportTrees == {CatalogTree, SessionTree}
ImportDocs == {[valid |-> TRUE, tree |-> t] : t \in ImportTrees}
                  \cup {[valid |-> FALSE, tree |-> <<>>]}
ImportIds == UNION {IdsIn(t) : t \in ImportTrees}
Positions == {"before", "after", "inside"}
NewNames == {<<"Renamed">>}

\* the ids a handler may be called with: every id of the live tree and one id
\* that is not in it
ArgIds(r) ==
    LET absent == (ImportIds \cup {newId(idCounter)}) \ IdsIn(r)
    IN  IdsIn(r) \cup (IF absent = {} THEN {} ELSE {CHOOSE i \in absent : TRUE})

Op(name, a, b, pos, pushed) ==
    [op |-> name, a |-> a, b |-> b, pos |-> pos, pre |-> root,
     preIdx |-> historyIdx, pushed |-> pushed, afterPush |-> lastOp.pushed,
     discarded |-> IF pushed THEN Len(history) - 1 - historyIdx ELSE lastOp.discarded,
     n |-> lastOp.n + 1]

\* a handler of the hook runs and leaves outcome out
Run(name, a, b, pos, out) ==
    /\ lastOp.n < MaxCalls
    /\ root' = out.tree
    /\ IF out.push
       THEN /\ history' = pushHistory(history, historyIdx, out.tree).history
            /\ historyIdx' = pushHistory(history, historyIdx, out.tree).idx
       ELSE UNCHANGED <<history, historyIdx>>
    /\ idCounter' = out.counter
    /\ selectedId' = out.selected
    /\ UNCHANGED clipboard
    /\ lastOp' = Op(name, a, b, pos, out.push)
    /\ UNCHANGED <<storeVars, importVars, indexVars>>

SelectNode ==
    \E id \in IdsIn(root) \cup {NoId} :
        /\ lastOp.n < MaxCalls
        /\ selectedId' = id
        /\ lastOp' = Op("selectNode", id, NoId, "", FALSE)
        /\ UNCHANGED <<root, clipboard, history, historyIdx, idCounter>>
        /\ UNCHANGED <<storeVars, importVars, indexVars>>

ToggleExpand ==
    \E id \in ArgIds(root) :
        Run("toggleExpand", id, NoId, "", toggleExpand(root, idCounter, selectedId, id))

ExpandAll == Run("expandAll", NoId, NoId, "", expandAll(root, idCounter, selectedId))

CollapseAll == Run("collapseAll", NoId, NoId, "", collapseAll(root, idCounter, selectedId))

AddChild ==
    \E id \in ArgIds(root) :
        Run("addChild", id, NoId, "", addChild(root, idCounter, selectedId, id))

AddSibling ==
    \E id \in ArgIds(root) :
        Run("addSibling", id, NoId, "", addSibling(root, idCounter, selectedId, id))

AddRootModule == Run("addRootModule", NoId, NoId, "", addRootModule(root, idCounter, selectedId))

DeleteNode ==
    \E id \in ArgIds(root) :
        Run("deleteNode", id, NoId, "", deleteNode(root, idCounter, selectedId, id))

DuplicateNode ==
    \E id \in ArgIds(root) :
        Run("duplicateNode", id, NoId, "", duplicateNode(root, idCounter, selectedId, id))

UpdateNode ==
    \E id \in ArgIds(root), name \in NewNames :
        Run("updateNode", id, NoId, "", updateNode(root, idCounter, selectedId, id, name))

CopyNode ==
    \E id \in ArgIds(root) :
        /\ lastOp.n < MaxCalls
        /\ clipboard' = copyNode(root, clipboard, id)
        /\ lastOp' = Op("copyNode", id, NoId, "", FALSE)
        /\ UNCHANGED <<root, selectedId, history, historyIdx, idCounter>>
        /\ UNCHANGED <<storeVars, importVars, indexVars>>

PasteInto ==
    \E id \in ArgIds(root) :
        Run("pasteInto", id, NoId, "", pasteInto(root, idCounter, selectedId, clipboard, id))

MoveNode ==
    \E dragId \in ArgIds(root), dropId \in ArgIds(root), position \in Positions :
        Run("moveNode", dragId, dropId, position,
            moveNode(root, idCounter, selectedId, dragId, dropId, position))

Undo ==
    /\ lastOp.n < MaxCalls
    /\ historyIdx' = undo(history, historyIdx, root).idx
    /\ root' = undo(history, historyIdx, root).tree
    /\ lastOp' = Op("undo", NoId, NoId, "", FALSE)
    /\ UNCHANGED <<selectedId, clipboard, history, idCounter>>
    /\ UNCHANGED <<storeVars, importVars, indexVars>>

Redo ==
    /\ lastOp.n < MaxCalls
    /\ historyIdx' = redo(history, historyIdx, root).idx
    /\ root' = redo(history, historyIdx, root).tree
    /\ lastOp' = Op("redo", NoId, NoId, "", FALSE)
    /\ UNCHANGED <<selectedId, clipboard, history, idCounter>>
    /\ UNCHANGED <<storeVars, importVars, indexVars>>

ImportJson ==
    \E doc \in ImportDocs :
        Run("importJson", NoId, NoId, "", importJson(root, idCounter, selectedId, doc))

ClearTree == Run("clearTree", NoId, NoId, "", clearTree(root, idCounter, selectedId))

LoadTree ==
    \E data \in ImportTrees :
        /\ lastOp.n < MaxCalls
        /\ root' = data
        /\ history' = <<clone(data)>>
        /\ historyIdx' = 0
        /\ selectedId' = NoId
        /\ lastOp' = Op("loadTree", NoId, NoId, "", FALSE)
        /\ UNCHANGED <<clipboard, idCounter>>
        /\ UNCHANGED <<storeVars, importVars, indexVars>>

\* the hook after construction (empty tree), or after the start-up loadTree
InitTree ==
    /\ IndexAtRest
    /\ root \in {<<>>, CatalogTree}
    /\ selectedId = NoId
    /\ clipboard = <<>>
    /\ history = <<clone(root)>>
    /\ historyIdx = 0
    /\ idCounter = IdCounterStart
    /\ lastOp = [op |-> "init", a |-> NoId, b |-> NoId, pos |-> "", pre |-> <<>>,
                 preIdx |-> 0, discarded |-> 0, pushed |-> FALSE, afterPush |-> FALSE,
                 n |-> 0]
    /\ StoreAtRest
    /\ ImportAtRest

NextTree ==
    \/ SelectNode \/ ToggleExpand \/ ExpandAll \/ CollapseAll
    \/ AddChild \/ AddSibling \/ AddRootModule
    \/ DeleteNode \/ DuplicateNode \/ UpdateNode
    \/ CopyNode \/ PasteInto \/ MoveNode
    \/ Undo \/ Redo
    \/ ImportJson \/ ClearTree \/ LoadTree

SpecTree == InitTree /\ [][NextTree]_vars

\* the drag-and-drop editing session: building, copying and moving nodes
NextMove ==
    \/ AddRootModule \/ AddChild \/ AddSibling \/ DuplicateNode \/ DeleteNode
    \/ MoveNode \/ Undo \/ Redo

SpecMove == InitTree /\ [][NextMove]_vars

\* the hook's state as a record, to describe a session that has already run
HookState(tree, h, idx, counter, selected) ==
    [tree |-> tree, history |-> h, idx |-> idx, counter |-> counter, selected |-> selected]

\* updateRoot and the selection change of a handler, applied to a hook state
Commit(st, out) ==
    HookState(out.tree, pushHistory(st.history, st.idx, out.tree).history,
              pushHistory(st.history, st.idx, out.tree).idx, out.counter, out.selected)

RECURSIVE SessionFrom(_, _, _)
\* the hook after the edits i..k of a session that stands at st: the odd
\* edits add a module, the even ones delete the module just added
SessionFrom(st, i, k) ==
    IF i > k THEN st
    ELSE LET next == IF i % 2 = 1
                     THEN Commit(st, addRootModule(st.tree, st.counter, st.selected))
                     ELSE Commit(st, deleteNode(st.tree, st.counter, st.selected, st.counter))
         IN  IF next.idx >= 0 THEN SessionFrom(next, i + 1, k) ELSE st

\* the hook after loadTree(CatalogTree) and k committed edits
Session(k) ==
    SessionFrom(HookState(CatalogTree, <<clone(CatalogTree)>>, 0, IdCounterStart, NoId), 1, k)

\* numbers of edits after which the history is new, almost full, full, and
\* full with its oldest snapshot already dropped
SessionLengths == {0, HistoryLimit - 2, HistoryLimit - 1, HistoryLimit}

\* a long editing session is picked up where it stands
InitHistory ==
    /\ IndexAtRest
    /\ \E k \in SessionLengths :
           /\ root = Session(k).tree
           /\ history = Session(k).history
           /\ historyIdx = Session(k).idx
           /\ idCounter = Session(k).counter
           /\ selectedId = Session(k).selected
    /\ clipboard = <<>>
    /\ lastOp = [op |-> "init", a |-> NoId, b |-> NoId, pos |-> "", pre |-> <<>>,
                 preIdx |-> 0, discarded |-> 0, pushed |-> FALSE, afterPush |-> FALSE,
                 n |-> 0]
    /\ StoreAtRest
    /\ ImportAtRest

\* the handlers that commit, undo and redo
NextHistory ==
    \/ AddChild \/ DeleteNode \/ UpdateNode \/ ClearTree \/ LoadTree \/ Undo \/ Redo

SpecHistory == InitHistory /\ [][NextHistory]_vars

(***************************************************************************)
(* Vocabulary of the claims about the tree                                 *)
(***************************************************************************)
RECURSIVE DescIds(_, _)
\* ids of the nodes strictly below a node named anc
DescIds(nodes, anc) ==
    UNION {IF nodes[i].id = anc THEN IdsIn(nodes[i].children)
           ELSE DescIds(nodes[i].children, anc) : i \in DOMAIN nodes}

RECURSIVE IdsOutside(_, _)
\* ids of the nodes that are neither named anc nor below a node named anc
IdsOutside(nodes, anc) ==
    UNION {IF nodes[i].id = anc THEN {}
           ELSE {nodes[i].id} \cup IdsOutside(nodes[i].children, anc) : i \in DOMAIN nodes}

\* b names a node of the tree, and every node named b lies strictly below a
StrictDescendant(nodes, a, b) ==
    a # b /\ b \in DescIds(nodes, a) /\ b \notin IdsOutside(nodes, a)

NoDuplicateIds(nodes) == Cardinality(IdsIn(nodes)) = Len(IdSeq(nodes))

StoreUnchanged == root' = root /\ history' = history /\ historyIdx' = historyIdx

\* C1: moveNode(dragId, dropId, position) changes neither the live tree nor
\* the history nor the cursor when dragId = dropId or dropId is a strict
\* descendant of dragId, whatever the position
C1_MoveRejectsSelfAndDescendants ==
    [][(/\ lastOp'.op = "moveNode"
        /\ \/ lastOp'.a = lastOp'.b
           \/ StrictDescendant(root, lastOp'.a, lastOp'.b))
       => StoreUnchanged]_vars

\* C2: moveNode(a, b, "inside") with b a strict descendant of a changes
\* neither the live tree nor the history nor the cursor
C2_MoveInsideDescendantRejected ==
    [][(/\ lastOp'.op = "moveNode"
        /\ lastOp'.pos = "inside"
        /\ StrictDescendant(root, lastOp'.a, lastOp'.b))
       => StoreUnchanged]_vars

\* C2 witness: a node was duplicated, the original was nested under the copy,
\* and moveNode(copy, original, "inside") has just been refused
C2_Witness ==
    /\ lastOp.op = "moveNode"
    /\ lastOp.pos = "inside"
    /\ StrictDescendant(root, lastOp.a, lastOp.b)
    /\ LET copy == findNode(root, lastOp.a)[1]
       IN  /\ copy.name[Len(copy.name)] = "(copy)"
           /\ findIndex(copy.children, lastOp.b) >= 0
           /\ lastOp.b < lastOp.a
           /\ findParent(root, lastOp.a) # <<>>
    /\ root = lastOp.pre
    /\ Len(history) = 3

\* C3: no two nodes of the live tree share an id
C3_NoDuplicateIds == NoDuplicateIds(root)

\* C4: undo() right after a committed mutation makes the live tree equal to
\* the tree the mutation started from, and a redo() right after that undo
\* makes it equal to the tree the mutation produced
C4_UndoRedoInverse ==
    [][/\ (lastOp.pushed /\ lastOp'.op = "undo") => root' = lastOp.pre
       /\ (lastOp.op = "undo" /\ lastOp.afterPush /\ lastOp'.op = "redo") => root' = lastOp.pre]_vars

\* C16: the selection is null or the id of a node of the live tree
C16_SelectionInTree == selectedId = NoId \/ selectedId \in IdsIn(root)

\* a handler commits while the cursor is on the last of 50 snapshots
CommitsOnFullHistory ==
    lastOp'.n = lastOp.n + 1 /\ lastOp'.pushed /\ historyIdx + 1 = HistoryLimit

\* what a step may do to the history
HistoryStep ==
    /\ CommitsOnFullHistory =>
           (/\ history' = Tail(SubSeq(history, 1, historyIdx + 1)) \o <<root'>>
            /\ historyIdx' = Len(history') - 1)
    /\ (lastOp'.op \in {"undo", "redo"}) => (history' = history)

\* C17: the history holds between 1 and 50 snapshots and the cursor indexes
\* one of them; a commit made with the cursor on the last of 50 snapshots
\* drops the oldest snapshot, appends the new tree and leaves the cursor on
\* it; undo and redo leave the snapshots as they are
C17_HistoryBounded ==
    /\ [](/\ Len(history) >= 1
          /\ Len(history) <= HistoryLimit
          /\ historyIdx >= 0
          /\ historyIdx < Len(history))
    /\ [][HistoryStep]_vars

\* C17 witness: a commit was made with the cursor on the last of 50
\* snapshots, and was followed by an undo
C17_Witness ==
    /\ lastOp.op = "undo"
    /\ lastOp.afterPush
    /\ lastOp.preIdx = HistoryLimit - 1
    /\ Len(history) = HistoryLimit
    /\ historyIdx = HistoryLimit - 2

\* a handler commits a new tree
Commits == lastOp'.n = lastOp.n + 1 /\ lastOp'.pushed

\* C18: a commit keeps the snapshots up to the cursor, discards those ahead
\* of it, appends the new tree as the last entry and puts the cursor on it;
\* from then on, as long as no undo is performed, the cursor stays on the
\* last entry and redo changes nothing
C18_RedoTailDiscarded ==
    [][/\ Commits =>
              (/\ history'[Len(history')] = root'
               /\ historyIdx' = Len(history') - 1
               /\ SubSeq(history', 1, Len(history') - 1)
                      \in {SubSeq(history, 1, historyIdx + 1), SubSeq(history, 2, historyIdx + 1)})
       /\ (historyIdx = Len(history) - 1 /\ lastOp'.op # "undo") =>
              (/\ historyIdx' = Len(history') - 1
               /\ (lastOp'.op = "redo") => (root' = root /\ history' = history))]_vars

\* C18 witness: a commit was made while snapshots lay ahead of the cursor,
\* redo was called next and left the tree and the cursor where they were
C18_Witness ==
    /\ lastOp.op = "redo"
    /\ lastOp.afterPush
    /\ lastOp.discarded > 0
    /\ lastOp.pre = root
    /\ lastOp.preIdx = historyIdx
    /\ historyIdx = Len(history) - 1

(***************************************************************************)
(* Part II - usePayanarssTypes: the flat record store                      *)
(***************************************************************************)
\* a stored record; the empty string is the only falsy id
PayanarssType(id, parentId, name) == [Id |-> id, ParentId |-> parentId, Name |-> name]

\* generateId: Date.now() and Math.random() in base 36, never seen before
generateId(count) == "g" \o ToString(count + 1)

StoreIds(prev) == {prev[i].Id : i \in DOMAIN prev}

\* Array.prototype.filter with the predicate "Id is not in ids"
filterOut(prev, ids) == SelectSeq(prev, LAMBDA t : t.Id \notin ids)

\* prev.filter(t => t.ParentId === typeId && t.Id !== typeId), as ids
childIdsOf(prev, typeId) ==
    {prev[i].Id : i \in {j \in DOMAIN prev : prev[j].ParentId = typeId /\ prev[j].Id # typeId}}

RECURSIVE collectDescendants(_, _, _)
\* the recursive walk of deleteType / deleteChildren / importTypes; it keeps no
\* visited set, so on a parent cycle it recurses until the call stack
\* overflows.  A chain of calls longer than the store has records repeats an
\* id, which is exactly when the walk does not end: overflow reports it.
collectDescendants(prev, typeId, depth) ==
    IF depth > Len(prev) + 1 THEN [ids |-> {}, overflow |-> TRUE]
    ELSE LET subs == {collectDescendants(prev, k, depth + 1) : k \in childIdsOf(prev, typeId)}
         IN  [ids |-> childIdsOf(prev, typeId) \cup UNION {w.ids : w \in subs},
              overflow |-> \E w \in subs : w.overflow]

\* What the updater passed to setTypesAndSave returns: next is the new store,
\* threw says the updater raised (RangeError), set says setTypesAndSave ran
Update(next, threw, set) == [next |-> next, threw |-> threw, set |-> set]

addType(prev, count, parentId, name) ==
    LET newTypeId == generateId(count)
        newType == PayanarssType(newTypeId, IF parentId # "" THEN parentId ELSE newTypeId, name)
    IN  Update(Append(prev, newType), FALSE, TRUE)

\* { ...t, ...updates } for a record of the three modelled fields
spread(t, updates) == [f \in DOMAIN t |-> IF f \in DOMAIN updates THEN updates[f] ELSE t[f]]

updateType(prev, id, updates) ==
    Update([i \in DOMAIN prev |-> IF prev[i].Id = id THEN spread(prev[i], updates) ELSE prev[i]],
           FALSE, TRUE)

\* TypeEditor.saveEditing: the record handed to onEditType
saveEditing(id, name) == [Id |-> id, ParentId |-> "", Name |-> name]

deleteType(prev, id) ==
    LET walk == collectDescendants(prev, id, 1)
    IN  IF walk.overflow THEN Update(prev, TRUE, TRUE)
        ELSE Update(filterOut(prev, {id} \cup walk.ids), FALSE, TRUE)

deleteChildren(prev, parentId) ==
    LET walk == collectDescendants(prev, parentId, 1)
    IN  IF walk.overflow THEN Update(prev, TRUE, TRUE)
        ELSE Update(filterOut(prev, walk.ids), FALSE, TRUE)

\* importTypes(incoming, replaceChildrenOf); "" stands for undefined
importTypes(prev, incoming, replaceChildrenOf) ==
    IF Len(incoming) = 0 THEN Update(prev, FALSE, FALSE)
    ELSE LET walk == collectDescendants(prev, replaceChildrenOf, 1)
             orphans == {prev[i].Id : i \in {j \in DOMAIN prev :
                             prev[j].ParentId = "" /\ prev[j].Id # prev[j].ParentId}}
             base == IF replaceChildrenOf # "" THEN filterOut(prev, walk.ids \cup orphans)
                     ELSE prev
             incomingIds == {incoming[i].Id : i \in DOMAIN incoming}
         IN  IF replaceChildrenOf # "" /\ walk.overflow THEN Update(prev, TRUE, TRUE)
             ELSE Update(filterOut(base, incomingIds) \o incoming, FALSE, TRUE)

\* handleImportFile: keep the records with a truthy Id and Name
validRecords(arr) == SelectSeq(arr, LAMBDA t : t.Id # "" /\ t.Name # "")

handleImportFile(prev, arr, selected) ==
    IF Len(validRecords(arr)) = 0 THEN Update(prev, FALSE, FALSE)
    ELSE importTypes(prev, validRecords(arr), selected)

(***************************************************************************)
(* Inputs and actions of the store                                         *)
(***************************************************************************)
\* the catalog the start-up load puts into the store: a self-parented root,
\* a child and a grandchild
StoreCatalog ==
    <<PayanarssType("r", "r", "Root"), PayanarssType("x", "r", "X"), PayanarssType("y", "x", "Y")>>

\* uploaded documents: a well-formed one, one whose two records name each
\* other as parent, one with a record that lacks its Id, one with no usable
\* record
FileDocs ==
    {<<PayanarssType("c", "x", "C")>>,
     <<PayanarssType("a", "b", "A"), PayanarssType("b", "a", "B")>>,
     <<PayanarssType("c", "r", "C"), PayanarssType("", "r", "D")>>,
     <<PayanarssType("", "r", "D")>>}

EditedNames == {"Renamed"}

\* saveTimeout holds the payloads of the timers that are pending, oldest first;
\* saveTimeout.current is the most recent one.  clearTimeout(saveTimeout.current)
clearTimeout(pending) ==
    IF pending = <<>> THEN pending ELSE SubSeq(pending, 1, Len(pending) - 1)

\* a new timer is set and the pending one is left running
setTimeoutOnly(pending, next) == Append(pending, next)

\* if (saveTimeout.current) clearTimeout(saveTimeout.current);
\* saveTimeout.current = setTimeout(() => saveToFile(next), 500)
debounce(pending, next) == Append(clearTimeout(pending), next)

\* setTypesAndSave(updater) as called by the mutation name(id): the store
\* becomes the updater's result and the save timer is replaced; an updater that
\* throws leaves both as they are and takes the component down
StoreRun(name, id, arg, upd, count) ==
    /\ storeOp.n < MaxStoreCalls
    /\ ~storeOp.threw
    /\ types' = upd.next
    /\ saveTimeout' = IF upd.set /\ ~upd.threw THEN debounce(saveTimeout, upd.next)
                      ELSE saveTimeout
    /\ genCount' = count
    /\ storeOp' = [op |-> name, id |-> id, arg |-> arg, pre |-> types, threw |-> upd.threw,
                   set |-> upd.set, n |-> storeOp.n + 1]
    /\ UNCHANGED savedFile
    /\ UNCHANGED <<treeVars, importVars, indexVars>>

AddType ==
    \E parentId \in StoreIds(types) \cup {""} :
        StoreRun("addType", parentId, <<>>, addType(types, genCount, parentId, "NewType"), genCount + 1)

\* saveEditing -> handleEditType -> updateType(updates.Id, updates)
EditType ==
    \E id \in StoreIds(types), name \in EditedNames :
        StoreRun("updateType", id, <<>>, updateType(types, id, saveEditing(id, name)), genCount)

DeleteType ==
    \E id \in StoreIds(types) :
        StoreRun("deleteType", id, <<>>, deleteType(types, id), genCount)

DeleteChildren ==
    \E parentId \in StoreIds(types) :
        StoreRun("deleteChildren", parentId, <<>>, deleteChildren(types, parentId), genCount)

\* handleImportFile -> handleImportTypes -> importTypes(valid, selectedParentId || undefined)
ImportFile ==
    \E arr \in FileDocs, selected \in StoreIds(types) \cup {""} :
        StoreRun("importTypes", selected, arr, handleImportFile(types, arr, selected), genCount)

\* the pending timer is cleared and saveToFile is never called
SaveTimerCleared ==
    /\ saveTimeout # <<>>
    /\ saveTimeout' = <<>>
    /\ UNCHANGED <<types, genCount, storeOp, savedFile>>
    /\ UNCHANGED <<treeVars, importVars, indexVars>>

\* the pending timer fires: saveToFile(next) posts the store it was given
SaveTimerFires ==
    /\ saveTimeout # <<>>
    /\ savedFile' = Append(savedFile, Head(saveTimeout))
    /\ saveTimeout' = Tail(saveTimeout)
    /\ UNCHANGED <<types, genCount, storeOp>>
    /\ UNCHANGED <<treeVars, importVars, indexVars>>

\* the designer tree and the import pipeline untouched, the store empty or
\* filled by the start-up load
InitStore ==
    /\ IndexAtRest
    /\ TreeAtRest
    /\ types \in {<<>>, StoreCatalog}
    /\ saveTimeout = <<>>
    /\ savedFile = <<>>
    /\ genCount = 0
    /\ storeOp = [op |-> "init", id |-> "", arg |-> <<>>, pre |-> <<>>, threw |-> FALSE,
                 set |-> FALSE, n |-> 0]
    /\ ImportAtRest

NextStore ==
    \/ AddType \/ EditType \/ DeleteType \/ DeleteChildren \/ ImportFile
    \/ SaveTimerFires

SpecStore == InitStore /\ [][NextStore]_vars

(***************************************************************************)
(* Vocabulary of the claims about the store                                *)
(***************************************************************************)
RECURSIVE Below(_, _, _)
\* ids of the records that reach id by following ParentId upward k times at
\* most, a self-parented record being where the climb stops
Below(prev, ids, k) ==
    IF k = 0 THEN {}
    ELSE LET kids == {prev[i].Id : i \in {j \in DOMAIN prev :
                          prev[j].ParentId \in ids /\ prev[j].ParentId # prev[j].Id}}
         IN  kids \cup Below(prev, kids, k - 1)

\* ids of the records of which id is a strict ancestor
StrictDescendantIds(prev, id) == Below(prev, {id}, Len(prev))

\* C5: deleteType(n) removes n and exactly the records n is a strict ancestor
\* of, keeps every other record as it was, and leaves no record whose
\* ParentId names a removed record
C5_CascadingDelete ==
    [][storeOp'.op = "deleteType" =>
         LET n == storeOp'.id
             gone == {n} \cup StrictDescendantIds(types, n)
         IN  /\ types' = filterOut(types, gone)
             /\ \A i \in DOMAIN types' : types'[i].ParentId \notin gone]_vars

\* a call of setTypesAndSave whose updater returned
Mutated == storeOp'.n = storeOp.n + 1 /\ storeOp'.set /\ ~storeOp'.threw

\* C15: at most one save timer is pending; a mutation leaves exactly one,
\* carrying the store the mutation produced; when the timer fires, saveToFile
\* is called once, with the store after the last mutation, and no timer is
\* left, so the mutations made since the previous save share one save
C15_DebouncedSave ==
    [][/\ Len(saveTimeout') <= 1
       /\ Mutated => saveTimeout' = <<types'>>
       /\ savedFile' # savedFile =>
              /\ savedFile' = Append(savedFile, types)
              /\ saveTimeout' = <<>>]_vars

\* C15 witness: a burst of MaxStoreCalls mutations, the last one changing the
\* store, has been followed by the one save there has been, of the store as
\* the last mutation left it
C15_Witness ==
    /\ storeOp.n = MaxStoreCalls
    /\ storeOp.set
    /\ ~storeOp.threw
    /\ storeOp.pre # types
    /\ savedFile = <<types>>
    /\ saveTimeout = <<>>

\* C19: an update issued by the type editor leaves the Id and the ParentId of
\* the edited record as they were, and every other record unchanged
C19_UpdateKeepsParent ==
    [][storeOp'.op = "updateType" =>
         /\ Len(types') = Len(types)
         /\ \A i \in DOMAIN types :
                /\ types'[i].Id = types[i].Id
                /\ types'[i].ParentId = types[i].ParentId
                /\ types[i].Id # storeOp'.id => types'[i] = types[i]]_vars

\* some record of an uploaded document lacks a required field
HasSchemaError(arr) == \E i \in DOMAIN arr : arr[i].Id = "" \/ arr[i].Name = ""

\* C20: when some record of the uploaded document has a schema error, the
\* file import adds no record of the document and leaves the store unchanged
C20_FileImportAtomic ==
    [][(storeOp'.op = "importTypes" /\ HasSchemaError(storeOp'.arg)) => types' = types]_vars

(***************************************************************************)
(* Part III - payanarssTypeImportUtils: the import pipeline                *)
(***************************************************************************)
LargeImportThreshold == 500

\* A JSON value found where a field is expected: t is its JSON type ("absent"
\* when the key is missing), v its content.  Names and Types are sequences of
\* characters, Ids are opaque strings, Children are sequences of nodes.
Str(chars) == [t |-> "string", v |-> chars]
NoStr == [t |-> "absent", v |-> <<>>]
Num == [t |-> "number", v |-> <<>>]
IdStr(id) == [t |-> "string", v |-> id]
NoIdField == [t |-> "absent", v |-> ""]
Kids(nodes) == [t |-> "array", v |-> nodes]
NoKids == [t |-> "absent", v |-> <<>>]
NotAnArray == [t |-> "string", v |-> <<>>]

\* a JSON value found where a node is expected: an object, null, or a string
SourceNode(kind, id, name, type, children) ==
    [kind |-> kind, Id |-> id, Name |-> name, Type |-> type, Children |-> children]

\* String.prototype.toLowerCase over the alphabet of the model
LowerChar(c) == IF c = "A" THEN "a" ELSE IF c = "B" THEN "b" ELSE IF c = "T" THEN "t" ELSE c
toLowerCase(chars) == [i \in DOMAIN chars |-> LowerChar(chars[i])]

RECURSIVE trimStart(_)
trimStart(chars) ==
    IF chars # <<>> /\ Head(chars) = " " THEN trimStart(Tail(chars)) ELSE chars

RECURSIVE trimEnd(_)
trimEnd(chars) ==
    IF chars # <<>> /\ chars[Len(chars)] = " " THEN trimEnd(SubSeq(chars, 1, Len(chars) - 1))
    ELSE chars

\* String.prototype.trim
trim(chars) == trimEnd(trimStart(chars))

\* uuidv4: never seen before
uuidv4(count) == "u" \o ToString(count + 1)

\* !(field in node) || node[field] === undefined || node[field] === null
missingField(value) == value.t \in {"absent", "null"}

RECURSIVE validateNode(_)
RECURSIVE validateChildren(_)
\* validateNode: the error messages of a node and of the nodes below it
validateNode(node) ==
    IF node.kind # "object" THEN <<"Expected an object">>
    ELSE (IF missingField(node.Id) THEN <<"Missing required field Id">> ELSE <<>>)
         \o (IF missingField(node.Name) THEN <<"Missing required field Name">> ELSE <<>>)
         \o (IF missingField(node.Type) THEN <<"Missing required field Type">> ELSE <<>>)
         \o (IF node.Name.t = "string" /\ Len(trim(node.Name.v)) = 0
             THEN <<"Name cannot be empty">> ELSE <<>>)
         \o (IF node.Type.t = "string" /\ Len(trim(node.Type.v)) = 0
             THEN <<"Type cannot be empty">> ELSE <<>>)
         \o (IF node.Children.t = "absent" THEN <<>>
             ELSE IF node.Children.t # "array" THEN <<"Children must be an array">>
             ELSE validateChildren(node.Children.v))
validateChildren(nodeList) ==
    IF nodeList = <<>> THEN <<>>
    ELSE validateNode(Head(nodeList)) \o validateChildren(Tail(nodeList))

RECURSIVE countSourceNodes(_)
\* countNodes of the import utilities: count is the number of nodes, threw
\* says the walk read .Children of null (TypeError)
countSourceNodes(nodes) ==
    IF nodes = <<>> THEN [count |-> 0, threw |-> FALSE]
    ELSE LET node == Head(nodes)
             below == IF node.kind = "object" /\ node.Children.t = "array"
                      THEN countSourceNodes(node.Children.v)
                      ELSE [count |-> 0, threw |-> FALSE]
             rest == countSourceNodes(Tail(nodes))
         IN  IF node.kind = "null" THEN [count |-> 0, threw |-> TRUE]
             ELSE [count |-> 1 + below.count + rest.count,
                   threw |-> below.threw \/ rest.threw]

\* validateImportData: data.v is the normalised node array
validateImportData(data) ==
    LET nodes == data.v
        errors == validateChildren(nodes)
        total == countSourceNodes(nodes)
    IN  IF Len(nodes) = 0
        THEN [isValid |-> FALSE, errors |-> <<"Import file contains no data.">>,
              warnings |-> <<>>, threw |-> FALSE]
        ELSE [isValid |-> Len(errors) = 0, errors |-> errors,
              warnings |-> IF total.count > LargeImportThreshold
                           THEN <<[kind |-> "large", count |-> total.count, names |-> <<>>]>>
                           ELSE <<>>,
              threw |-> total.threw]

\* Map.prototype.set
mapSet(map, key, value) ==
    [k \in DOMAIN map \cup {key} |-> IF k = key THEN value ELSE map[k]]

hasChildren(node) == node.Children.t = "array" /\ Len(node.Children.v) > 0

RECURSIVE idMapTraverse(_, _, _)
\* buildIdMap's traverse: one uuidv4() per node visited, stored under the
\* node's source Id
idMapTraverse(nodeList, map, count) ==
    IF nodeList = <<>> THEN [map |-> map, count |-> count]
    ELSE LET node == Head(nodeList)
             here == mapSet(map, node.Id, uuidv4(count))
             below == IF hasChildren(node)
                      THEN idMapTraverse(node.Children.v, here, count + 1)
                      ELSE [map |-> here, count |-> count + 1]
         IN  idMapTraverse(Tail(nodeList), below.map, below.count)

buildIdMap(nodes, count) == idMapTraverse(nodes, <<>>, count)

RECURSIVE flattenTraverse(_, _, _)
\* flattenAndTransform's traverse: { ...node, Id: newId, ParentId: parentId }
\* with Children deleted, then the children under the new Id
flattenTraverse(nodeList, parentId, map) ==
    IF nodeList = <<>> THEN <<>>
    ELSE LET node == Head(nodeList)
             newTypeId == map[node.Id]
             transformedNode == [Id |-> newTypeId, ParentId |-> parentId, Name |-> node.Name,
                                 Type |-> node.Type, Children |-> NoKids]
         IN  <<transformedNode>>
             \o (IF hasChildren(node) THEN flattenTraverse(node.Children.v, newTypeId, map)
                 ELSE <<>>)
             \o flattenTraverse(Tail(nodeList), parentId, map)

\* flattenAndTransform without the re-linking: every record is attached to
\* the selected parent
flattenUnlinked(nodes, selected, map) ==
    [i \in DOMAIN flattenTraverse(nodes, selected, map) |->
        [flattenTraverse(nodes, selected, map)[i] EXCEPT !.ParentId = selected]]

flattenAndTransform(nodes, selected, map) == flattenTraverse(nodes, selected, map)

\* detectOrphans
detectOrphans(records, selected) ==
    LET allIds == {records[i].Id : i \in DOMAIN records} \cup {selected}
    IN  SelectSeq(records, LAMBDA r : r.ParentId \notin allIds)

\* value?.trim().toLowerCase() inside a template literal
signaturePart(value) ==
    IF value.t = "string" THEN toLowerCase(trim(value.v)) ELSE <<"undefined">>

\* value?.trim() raises TypeError when the value is neither a string nor nullish
signatureThrows(record) == record.Name.t = "number" \/ record.Type.t = "number"

\* buildSignature: the three parts that the template joins with "|"
buildSignature(record) ==
    <<signaturePart(record.Name), signaturePart(record.Type), record.ParentId>>

RECURSIVE detectLoop(_, _, _)
\* the for-loop of detectDuplicates; seen is importBatchSignatures
detectLoop(records, existingSignatures, seen) ==
    IF records = <<>> THEN [duplicates |-> <<>>, unique |-> <<>>]
    ELSE LET record == Head(records)
             signature == buildSignature(record)
             isDup == signature \in existingSignatures \/ signature \in seen
             rest == detectLoop(Tail(records), existingSignatures,
                                IF isDup THEN seen ELSE seen \cup {signature})
         IN  IF isDup
             THEN [duplicates |-> <<record>> \o rest.duplicates, unique |-> rest.unique]
             ELSE [duplicates |-> rest.duplicates, unique |-> <<record>> \o rest.unique]

\* detectDuplicates that looks for repeats inside the batch only
detectDuplicatesInBatch(importedRecords, existing) ==
    IF \E j \in DOMAIN importedRecords : signatureThrows(importedRecords[j])
    THEN [duplicates |-> <<>>, unique |-> <<>>, threw |-> TRUE]
    ELSE LET found == detectLoop(importedRecords, {}, {})
         IN  [duplicates |-> found.duplicates, unique |-> found.unique, threw |-> FALSE]

\* detectDuplicates; threw says buildSignature raised on some record
detectDuplicates(importedRecords, existing) ==
    IF \/ \E i \in DOMAIN existing : signatureThrows(existing[i])
       \/ \E j \in DOMAIN importedRecords : signatureThrows(importedRecords[j])
    THEN [duplicates |-> <<>>, unique |-> <<>>, threw |-> TRUE]
    ELSE LET found == detectLoop(importedRecords,
                                 {buildSignature(existing[i]) : i \in DOMAIN existing}, {})
         IN  [duplicates |-> found.duplicates, unique |-> found.unique, threw |-> FALSE]

ImportResult(success, importedCount, records, errors, warnings) ==
    [success |-> success, importedCount |-> importedCount, records |-> records,
     errors |-> errors, warnings |-> warnings]

\* the warning "<n> duplicate(s) skipped: <names>"
duplicatesWarning(duplicates) ==
    [kind |-> "duplicates", count |-> Len(duplicates),
     names |-> [i \in DOMAIN duplicates |-> duplicates[i].Name]]

(***************************************************************************)
(* Inputs and steps of the import pipeline                                 *)
(***************************************************************************)
\* object nodes of an uploaded document, without children: three well-formed
\* ones (the second differs from the first in case and leading blank only),
\* one that repeats the Id of the first, and one per defect of a field
ObjectNodes ==
    {SourceNode("object", IdStr("i1"), Str(<<"a">>), Str(<<"t">>), NoKids),
     SourceNode("object", IdStr("i2"), Str(<<" ", "A">>), Str(<<"T">>), NoKids),
     SourceNode("object", IdStr("i3"), Str(<<"b">>), Str(<<"t">>), NoKids),
     SourceNode("object", IdStr("i1"), Str(<<"b">>), Str(<<"t">>), NoKids),
     SourceNode("object", IdStr("i3"), NoStr, Str(<<"t">>), NoKids),
     SourceNode("object", IdStr("i3"), Num, Str(<<"t">>), NoKids),
     SourceNode("object", IdStr("i3"), Str(<<"a">>), Str(<<" ">>), NoKids),
     SourceNode("object", IdStr(""), Str(<<"b">>), Str(<<"t">>), NoKids),
     SourceNode("object", NoIdField, Str(<<"a">>), Str(<<"t">>), NoKids)}

\* what else JSON allows where a node is expected: null, a string, and an
\* object whose Children is not an array
OtherNodes ==
    {SourceNode("null", NoIdField, NoStr, NoStr, NoKids),
     SourceNode("string", NoIdField, NoStr, NoStr, NoKids),
     SourceNode("object", IdStr("i3"), Str(<<"b">>), Str(<<"t">>), NotAnArray)}

RECURSIVE ForestsOf(_, _)
RECURSIVE TreesOf(_, _)
\* the node arrays with n nodes in all, built from the given childless nodes
ForestsOf(n, nodes) ==
    IF n = 0 THEN {<<>>}
    ELSE UNION {{<<tr>> \o f : tr \in TreesOf(k, nodes), f \in ForestsOf(n - k, nodes)} : k \in 1..n}
\* the nodes with k nodes in all, itself included
TreesOf(k, nodes) ==
    IF k = 1 THEN nodes
    ELSE {[o EXCEPT !.Children = Kids(f)] :
              o \in {x \in nodes : x.kind = "object" /\ x.Children.t = "absent"},
              f \in ForestsOf(k - 1, nodes)}

\* what readJsonFile resolves to, normalised as validateImportData does: an
\* array of nodes, a single node, or no JSON at all; at most size nodes
RawDocs(size, nodes) ==
    {[t |-> "array", v |-> f] : f \in UNION {ForestsOf(n, nodes) : n \in 0..size}}
    \cup {[t |-> "object", v |-> <<tr>>] : tr \in UNION {TreesOf(k, nodes) : k \in 1..size}}
    \cup {[t |-> "badjson", v |-> <<>>]}

\* the childless nodes validateNode has nothing to say about
AcceptedNodes == {o \in ObjectNodes : validateNode(o) = <<>>}

ExistingA ==
    [Id |-> "e1", ParentId |-> "p", Name |-> Str(<<"a">>), Type |-> Str(<<"t">>), Children |-> NoKids]
ExistingB ==
    [Id |-> "e2", ParentId |-> "p", Name |-> Str(<<"b">>), Type |-> Str(<<"t">>), Children |-> NoKids]
ExistingChoices == {<<>>, <<ExistingA>>, <<ExistingA, ExistingB>>}

\* a failure result that does not carry the errors collected
FailureWithoutErrors(errors, warnings) == ImportResult(FALSE, 0, <<>>, <<>>, warnings)

\* the object literal of every failing return: success false, importedCount 0,
\* records [], the errors and warnings collected so far
Failure(errors, warnings) == ImportResult(FALSE, 0, <<>>, errors, warnings)

\* a step of handlePayanarssTypeImport: everything it does not assign stays
ImportStep(pc, map, records, result, count) ==
    /\ importPc' = pc
    /\ idMap' = map
    /\ transformedRecords' = records
    /\ importResult' = result
    /\ uuidCount' = count
    /\ UNCHANGED <<rawData, selectedParentId, existingRecords>>
    /\ UNCHANGED <<treeVars, storeVars, indexVars>>

\* STEP 1: readJsonFile
ReadJsonFile ==
    /\ importPc = "read"
    /\ IF rawData.t = "badjson"
       THEN ImportStep("done", idMap, transformedRecords,
                       <<Failure(<<"Invalid JSON format.">>, <<>>)>>, uuidCount)
       ELSE ImportStep("validate", idMap, transformedRecords, importResult, uuidCount)

\* STEP 2: validateImportData; an exception leaves the async function
\* without a result
ValidateSchema ==
    /\ importPc = "validate"
    /\ LET validation == validateImportData(rawData)
       IN  IF validation.threw
           THEN ImportStep("threw", idMap, transformedRecords, importResult, uuidCount)
           ELSE IF ~validation.isValid
           THEN ImportStep("done", idMap, transformedRecords,
                           <<Failure(validation.errors, validation.warnings)>>, uuidCount)
           ELSE ImportStep("buildIdMap", idMap, transformedRecords, importResult, uuidCount)

\* STEP 3: buildIdMap
BuildIdMap ==
    /\ importPc = "buildIdMap"
    /\ LET built == buildIdMap(rawData.v, uuidCount)
       IN  ImportStep("flatten", built.map, transformedRecords, importResult, built.count)

\* STEP 4: flattenAndTransform
FlattenAndTransform ==
    /\ importPc = "flatten"
    /\ ImportStep("orphans", idMap, flattenAndTransform(rawData.v, selectedParentId, idMap),
                  importResult, uuidCount)

\* STEP 5: detectOrphans
DetectOrphans ==
    /\ importPc = "orphans"
    /\ IF Len(detectOrphans(transformedRecords, selectedParentId)) > 0
       THEN ImportStep("done", idMap, transformedRecords,
                       <<Failure(<<"Data integrity error: orphan node(s) detected.">>,
                                 validateImportData(rawData).warnings)>>, uuidCount)
       ELSE ImportStep("duplicates", idMap, transformedRecords, importResult, uuidCount)

\* STEPS 6 and 7: detectDuplicates and the result
DetectDuplicates ==
    /\ importPc = "duplicates"
    /\ LET found == detectDuplicates(transformedRecords, existingRecords)
           warnings == validateImportData(rawData).warnings
                       \o (IF Len(found.duplicates) > 0
                           THEN <<duplicatesWarning(found.duplicates)>> ELSE <<>>)
       IN  IF found.threw
           THEN ImportStep("threw", idMap, transformedRecords, importResult, uuidCount)
           ELSE IF Len(found.unique) = 0
           THEN ImportStep("done", idMap, transformedRecords,
                           <<Failure(<<"All records in the file are duplicates. Nothing to import.">>,
                                     warnings)>>, uuidCount)
           ELSE ImportStep("done", idMap, transformedRecords,
                           <<ImportResult(TRUE, Len(found.unique), found.unique, <<>>, warnings)>>,
                           uuidCount)

\* handlePayanarssTypeImport(file, selectedParentId, existingRecords) is called
InitImport ==
    /\ IndexAtRest
    /\ TreeAtRest
    /\ StoreAtRest
    /\ importPc = "read"
    /\ rawData \in RawDocs(MaxImportNodes, ObjectNodes \cup OtherNodes)
    /\ selectedParentId = "p"
    /\ existingRecords \in ExistingChoices
    /\ idMap = <<>>
    /\ transformedRecords = <<>>
    /\ importResult = <<>>
    /\ uuidCount = 0

NextImport ==
    \/ ReadJsonFile \/ ValidateSchema \/ BuildIdMap \/ FlattenAndTransform
    \/ DetectOrphans \/ DetectDuplicates

SpecImport == InitImport /\ [][NextImport]_vars

\* the same call on the documents whose nodes all pass validateNode, the ones
\* that reach the transformation steps
InitTransform ==
    /\ IndexAtRest
    /\ TreeAtRest
    /\ StoreAtRest
    /\ importPc = "read"
    /\ rawData \in RawDocs(MaxImportNodes, AcceptedNodes)
    /\ selectedParentId = "p"
    /\ existingRecords \in ExistingChoices
    /\ idMap = <<>>
    /\ transformedRecords = <<>>
    /\ importResult = <<>>
    /\ uuidCount = 0

SpecTransform == InitTransform /\ [][NextImport]_vars

\* nodes that between them take the handler down each of its returns: two
\* well-formed nodes with the same signature, a third well-formed node, one
\* without a Name, one whose Children is not an array
ResultNodes ==
    {SourceNode("object", IdStr("i1"), Str(<<"a">>), Str(<<"t">>), NoKids),
     SourceNode("object", IdStr("i2"), Str(<<" ", "A">>), Str(<<"T">>), NoKids),
     SourceNode("object", IdStr("i3"), Str(<<"b">>), Str(<<"t">>), NoKids),
     SourceNode("object", IdStr("i3"), NoStr, Str(<<"t">>), NoKids),
     SourceNode("object", IdStr("i3"), Str(<<"b">>), Str(<<"t">>), NotAnArray)}

\* the same call on the documents built from ResultNodes
InitResult ==
    /\ IndexAtRest
    /\ TreeAtRest
    /\ StoreAtRest
    /\ importPc = "read"
    /\ rawData \in RawDocs(MaxImportNodes, ResultNodes)
    /\ selectedParentId = "p"
    /\ existingRecords \in ExistingChoices
    /\ idMap = <<>>
    /\ transformedRecords = <<>>
    /\ importResult = <<>>
    /\ uuidCount = 0

SpecResult == InitResult /\ [][NextImport]_vars

(***************************************************************************)
(* Vocabulary of the claims about the import pipeline                      *)
(***************************************************************************)
RECURSIVE SourceNodesOf(_)
\* the nodes of a document at every depth, in document order
SourceNodesOf(nodeList) ==
    IF nodeList = <<>> THEN <<>>
    ELSE <<Head(nodeList)>>
         \o (IF Head(nodeList).kind = "object" /\ Head(nodeList).Children.t = "array"
             THEN SourceNodesOf(Head(nodeList).Children.v) ELSE <<>>)
         \o SourceNodesOf(Tail(nodeList))

RECURSIVE ParentPositions(_, _, _)
\* for each node, in document order, the position of its source parent in
\* that order, 0 for a top-level node; first is the position of the head
ParentPositions(nodeList, parentPos, first) ==
    IF nodeList = <<>> THEN <<>>
    ELSE LET below == IF hasChildren(Head(nodeList))
                      THEN ParentPositions(Head(nodeList).Children.v, first, first + 1)
                      ELSE <<>>
         IN  <<parentPos>> \o below
             \o ParentPositions(Tail(nodeList), parentPos, first + 1 + Len(below))

\* some node of the document, at some depth, is reported by validateNode
SomeNodeFailsSchema == rawData.t # "badjson" /\ Len(validateChildren(rawData.v)) > 0

Flattened == importPc \in {"orphans", "duplicates"}

RECURSIVE PickFrom(_, _, _)
\* the elements of seq at the positions in keep, in order; i is the position
\* of the head
PickFrom(seq, keep, i) ==
    IF seq = <<>> THEN <<>>
    ELSE (IF i \in keep THEN <<Head(seq)>> ELSE <<>>) \o PickFrom(Tail(seq), keep, i + 1)

\* the signature as the claim words it: lower-cased name, type, ParentId
LowerCasedName(record) ==
    [t |-> record.Name.t,
     v |-> IF record.Name.t = "string" THEN toLowerCase(record.Name.v) ELSE record.Name.v]

SameSignature(r1, r2) ==
    /\ LowerCasedName(r1) = LowerCasedName(r2)
    /\ r1.Type = r2.Type
    /\ r1.ParentId = r2.ParentId

\* positions of the transformed records that match an existing record or an
\* earlier record of the batch
DuplicatePositions ==
    {i \in DOMAIN transformedRecords :
        \/ \E k \in DOMAIN existingRecords : SameSignature(existingRecords[k], transformedRecords[i])
        \/ \E j \in 1..(i - 1) : SameSignature(transformedRecords[j], transformedRecords[i])}

\* C6: when some node of the input fails schema validation, the validation
\* step ends the import with success = false, importedCount = 0 and no
\* records, generates no id, transforms nothing and leaves the existing
\* records as they are
C6_ImportAtomicity ==
    [][(importPc = "validate" /\ SomeNodeFailsSchema) =>
         /\ importPc' = "done"
         /\ importResult' # <<>>
         /\ ~importResult'[1].success
         /\ importResult'[1].importedCount = 0
         /\ importResult'[1].records = <<>>
         /\ uuidCount' = 0
         /\ idMap' = <<>>
         /\ transformedRecords' = <<>>
         /\ existingRecords' = existingRecords]_vars

\* C7: every record a successful import returns has a ParentId that is the
\* attachment point or the Id of another returned record
C7_NoDanglingParent ==
    (importPc = "done" /\ importResult # <<>> /\ importResult[1].success) =>
        LET records == importResult[1].records
        IN  \A i \in DOMAIN records :
                \/ records[i].ParentId = selectedParentId
                \/ \E j \in DOMAIN records : j # i /\ records[j].Id = records[i].ParentId

\* C8: for every input that passes validation the transformed batch has one
\* record per source node, and the new Ids are pairwise distinct
C8_OneRecordPerNode ==
    Flattened =>
        /\ Len(transformedRecords) = Len(SourceNodesOf(rawData.v))
        /\ \A i \in DOMAIN transformedRecords :
               transformedRecords[i].Name = SourceNodesOf(rawData.v)[i].Name
        /\ \A i, j \in DOMAIN transformedRecords :
               i # j => transformedRecords[i].Id # transformedRecords[j].Id

\* C9: flattenAndTransform gives the record of a top-level source node the
\* attachment point as ParentId, the record of a nested source node the new
\* Id of its source parent, and leaves no record with Children
C9_FlattenPreservesShape ==
    Flattened =>
        LET parents == ParentPositions(rawData.v, 0, 1)
        IN  /\ Len(transformedRecords) = Len(parents)
            /\ \A i \in DOMAIN transformedRecords :
                   /\ transformedRecords[i].ParentId =
                          IF parents[i] = 0 THEN selectedParentId
                          ELSE transformedRecords[parents[i]].Id
                   /\ transformedRecords[i].Children.t = "absent"

\* C9 witness: a document with a top-level node, a child and a grandchild has
\* been flattened, each under the new Id of the one above
C9_Witness ==
    /\ importPc = "orphans"
    /\ ParentPositions(rawData.v, 0, 1) = <<0, 1, 2>>
    /\ Len(transformedRecords) = 3
    /\ transformedRecords[1].ParentId = selectedParentId
    /\ transformedRecords[2].ParentId = transformedRecords[1].Id
    /\ transformedRecords[3].ParentId = transformedRecords[2].Id
    /\ Cardinality({transformedRecords[i].Id : i \in 1..3} \cup {selectedParentId}) = 4

\* C10: when some but not all transformed records are duplicates by the
\* signature (lower-cased name, type, ParentId), the import succeeds,
\* importedCount is the batch size minus the number of duplicates, the
\* returned records are the non-duplicates in their order, and a warning
\* names every skipped record
C10_PartialDuplicates ==
    (/\ importPc \in {"done", "threw"}
     /\ transformedRecords # <<>>
     /\ DuplicatePositions # {}
     /\ DuplicatePositions # DOMAIN transformedRecords) =>
        /\ importPc = "done"
        /\ importResult[1].success
        /\ importResult[1].importedCount =
               Len(transformedRecords) - Cardinality(DuplicatePositions)
        /\ importResult[1].records =
               PickFrom(transformedRecords, DOMAIN transformedRecords \ DuplicatePositions, 1)
        /\ \E w \in DOMAIN importResult[1].warnings :
               /\ importResult[1].warnings[w].kind = "duplicates"
               /\ importResult[1].warnings[w].names =
                      [i \in DOMAIN PickFrom(transformedRecords, DuplicatePositions, 1) |->
                          PickFrom(transformedRecords, DuplicatePositions, 1)[i].Name]

\* positions of the transformed records whose buildSignature is that of an
\* existing record or of an earlier record of the batch
SignatureDuplicates ==
    {i \in DOMAIN transformedRecords :
        /\ ~signatureThrows(transformedRecords[i])
        /\ \/ \E k \in DOMAIN existingRecords :
                  /\ ~signatureThrows(existingRecords[k])
                  /\ buildSignature(existingRecords[k]) = buildSignature(transformedRecords[i])
           \/ \E j \in 1..(i - 1) :
                  /\ ~signatureThrows(transformedRecords[j])
                  /\ buildSignature(transformedRecords[j]) = buildSignature(transformedRecords[i])}

NothingToImport == "All records in the file are duplicates. Nothing to import."

\* C11: when every transformed record is a duplicate by signature, the
\* import ends with success = false, importedCount = 0, no records, the
\* error "nothing to import", and the warning naming the skipped duplicates
C11_AllDuplicatesRejected ==
    (/\ importPc \in {"done", "threw"}
     /\ transformedRecords # <<>>
     /\ SignatureDuplicates = DOMAIN transformedRecords) =>
        /\ importPc = "done"
        /\ ~importResult[1].success
        /\ importResult[1].importedCount = 0
        /\ importResult[1].records = <<>>
        /\ importResult[1].errors = <<NothingToImport>>
        /\ \E w \in DOMAIN importResult[1].warnings :
               /\ importResult[1].warnings[w].kind = "duplicates"
               /\ importResult[1].warnings[w].count = Len(transformedRecords)
               /\ importResult[1].warnings[w].names =
                      [i \in DOMAIN transformedRecords |-> transformedRecords[i].Name]

\* C11 witness: a batch of two records, one matching an existing record and
\* one repeating the first, has been rejected
C11_Witness ==
    /\ importPc = "done"
    /\ Len(transformedRecords) = 2
    /\ Len(existingRecords) = 1
    /\ SignatureDuplicates = {1, 2}
    /\ importResult[1].errors = <<NothingToImport>>

(***************************************************************************)
(* Export of the store followed by the id-regenerating import              *)
(***************************************************************************)
\* a stored record with the fields the import pipeline looks at: Name is a
\* sequence of characters, Type is absent for a record shaped as the store's
\* PayanarssType interface declares it (Id, ParentId, Name, PayanarssTypeId,
\* Attributes, Description) and a string for a record that came from a
\* document carrying a Type
StoredRecord(id, parentId, name, type) ==
    [Id |-> id, ParentId |-> parentId, Name |-> name, Type |-> type]

StoredId(i) == "s" \o ToString(i)

\* the valid stores of n records: ids unique, every record its own parent (a
\* root) or the child of an earlier record, hence no cycle
ValidStores(n) ==
    {s \in [1..n -> [Id : {StoredId(i) : i \in 1..n},
                     ParentId : {StoredId(i) : i \in 1..n},
                     Name : {<<"a">>, <<"b">>},
                     Type : {NoStr, Str(<<"t">>)}]] :
        \A i \in 1..n : /\ s[i].Id = StoredId(i)
                         /\ s[i].ParentId \in {StoredId(j) : j \in 1..i}}

\* exportToJson, JSON.stringify(types), read back by readJsonFile: an array
\* of objects without Children; the ParentId of a source object is
\* overwritten by flattenAndTransform and is not carried
exportToJson(store) ==
    [t |-> "array",
     v |-> [i \in DOMAIN store |->
               SourceNode("object", IdStr(store[i].Id), Str(store[i].Name), store[i].Type, NoKids)]]

\* the exported document is handed to handlePayanarssTypeImport
ExportToJson ==
    /\ importPc = "idle"
    /\ importPc' = "read"
    /\ rawData' = exportToJson(types)
    /\ UNCHANGED <<selectedParentId, existingRecords, idMap, transformedRecords,
                   importResult, uuidCount>>
    /\ UNCHANGED <<treeVars, storeVars, indexVars>>

InitRoundTrip ==
    /\ IndexAtRest
    /\ TreeAtRest
    /\ types \in UNION {ValidStores(n) : n \in 0..MaxStoreSize}
    /\ saveTimeout = <<>>
    /\ savedFile = <<>>
    /\ genCount = 0
    /\ storeOp = [op |-> "init", id |-> "", arg |-> <<>>, pre |-> <<>>, threw |-> FALSE,
                 set |-> FALSE, n |-> 0]
    /\ importPc = "idle"
    /\ rawData = [t |-> "array", v |-> <<>>]
    /\ selectedParentId = "p"
    /\ existingRecords = <<>>
    /\ idMap = <<>>
    /\ transformedRecords = <<>>
    /\ importResult = <<>>
    /\ uuidCount = 0

NextRoundTrip == ExportToJson \/ NextImport

SpecRoundTrip == InitRoundTrip /\ [][NextRoundTrip]_vars

\* position in the store of the record with the given id
StorePosition(store, id) == CHOOSE i \in DOMAIN store : store[i].Id = id

\* C12: exporting a valid, non-empty store and importing the document yields
\* one record per stored record, in store order, with the same Name and Type,
\* a root attached to the selected parent and every other record under the
\* record of its stored parent
C12_RoundTrip ==
    (importPc \in {"done", "threw"} /\ types # <<>>) =>
        /\ importPc = "done"
        /\ importResult[1].success
        /\ LET records == importResult[1].records
           IN  /\ Len(records) = Len(types)
               /\ \A i \in DOMAIN records :
                      /\ i \in DOMAIN types
                      /\ records[i].Name = Str(types[i].Name)
                      /\ records[i].Type = types[i].Type
                      /\ records[i].ParentId =
                             IF types[i].ParentId = types[i].Id THEN selectedParentId
                             ELSE records[StorePosition(types, types[i].ParentId)].Id

(***************************************************************************)
(* Part IV - maa-erp hierarchyBuilder: the index over the flat store        *)
(***************************************************************************)
\* a record of the flat array; only Id and ParentId matter to the index
TypeRecord(id, parentId) == [Id |-> id, ParentId |-> parentId]

\* Map.prototype.get(key) || []
getOrEmpty(map, key) == IF key \in DOMAIN map THEN map[key] ELSE <<>>

RECURSIVE indexById(_, _)
\* pass 1: byId.set(t.Id, t) for every record, a later record replacing an
\* earlier one with the same Id
indexById(records, byId) ==
    IF records = <<>> THEN byId
    ELSE indexById(Tail(records), mapSet(byId, Head(records).Id, Head(records)))

RECURSIVE groupChildren(_, _, _)
\* pass 2: a record that is its own parent goes to roots, any other record
\* is pushed onto the children list of its ParentId
groupChildren(records, childrenOf, roots) ==
    IF records = <<>> THEN [childrenOf |-> childrenOf, roots |-> roots]
    ELSE LET t == Head(records)
         IN  IF t.Id = t.ParentId
             THEN groupChildren(Tail(records), childrenOf, Append(roots, t))
             ELSE groupChildren(Tail(records),
                                mapSet(childrenOf, t.ParentId,
                                       Append(getOrEmpty(childrenOf, t.ParentId), t)),
                                roots)

RECURSIVE countDescendants(_, _, _, _, _)
RECURSIVE countChildren(_, _, _, _, _)
\* countDescendants(nodeId) with its memo table descendantCount.  The entry of
\* a node is written only after all its children have returned, so a node
\* that is reached again below itself is computed again, without end: a chain
\* of calls longer than the array has records repeats an id, and overflow
\* reports the RangeError that ends it.
countDescendants(nodeId, childrenOf, memo, depth, limit) ==
    IF nodeId \in DOMAIN memo
    THEN [count |-> memo[nodeId], memo |-> memo, overflow |-> FALSE]
    ELSE IF depth > limit THEN [count |-> 0, memo |-> memo, overflow |-> TRUE]
    ELSE LET children == getOrEmpty(childrenOf, nodeId)
             below == countChildren(children, childrenOf, memo, depth, limit)
             count == Len(children) + below.count
         IN  IF below.overflow THEN [count |-> 0, memo |-> memo, overflow |-> TRUE]
             ELSE [count |-> count, memo |-> mapSet(below.memo, nodeId, count),
                   overflow |-> FALSE]
\* for (const child of children) count += countDescendants(child.Id)
countChildren(children, childrenOf, memo, depth, limit) ==
    IF children = <<>> THEN [count |-> 0, memo |-> memo, overflow |-> FALSE]
    ELSE LET first == countDescendants(Head(children).Id, childrenOf, memo, depth + 1, limit)
             rest == countChildren(Tail(children), childrenOf, first.memo, depth, limit)
         IN  IF first.overflow THEN first
             ELSE [count |-> first.count + rest.count, memo |-> rest.memo,
                   overflow |-> rest.overflow]

RECURSIVE countAll(_, _, _, _)
\* for (const t of types) countDescendants(t.Id)
countAll(records, childrenOf, memo, limit) ==
    IF records = <<>> THEN [memo |-> memo, overflow |-> FALSE]
    ELSE LET first == countDescendants(Head(records).Id, childrenOf, memo, 1, limit)
         IN  IF first.overflow THEN [memo |-> memo, overflow |-> TRUE]
             ELSE countAll(Tail(records), childrenOf, first.memo, limit)

\* pass 3 with every entry the number of direct children only
countDirectChildren(records, childrenOf) ==
    [memo |-> [id \in {records[i].Id : i \in DOMAIN records} |->
                  Len(getOrEmpty(childrenOf, id))],
     overflow |-> FALSE]

\* pass 3: the memo table after the loop over the array
countPass(records, childrenOf) == countAll(records, childrenOf, <<>>, Len(records) + 1)

(***************************************************************************)
(* Inputs and steps of buildHierarchyIndex                                 *)
(***************************************************************************)
IndexIds == {"A", "B", "C"}
\* "Z" is the Id of no record
IndexParentIds == IndexIds \cup {"Z"}

\* the flat arrays of up to size records: any Id, any ParentId, so repeated
\* Ids, missing parents and parent cycles are among them
FlatArrays(size) ==
    UNION {[1..n -> {TypeRecord(id, parentId) : id \in IndexIds, parentId \in IndexParentIds}] :
              n \in 0..size}

IndexStep(pc, index) ==
    /\ indexPc' = pc
    /\ hierarchyIndex' = index
    /\ UNCHANGED <<allTypes, navigationStack, navOp, ancestorPath>>
    /\ UNCHANGED <<treeVars, storeVars, importVars>>

\* Pass 1: Index by Id
IndexById ==
    /\ indexPc = "pass1"
    /\ IndexStep("pass2", [hierarchyIndex EXCEPT !.byId = indexById(allTypes, <<>>)])

\* Pass 2: Group children, identify roots
GroupChildren ==
    /\ indexPc = "pass2"
    /\ LET grouped == groupChildren(allTypes, <<>>, <<>>)
       IN  IndexStep("pass3", [hierarchyIndex EXCEPT !.childrenOf = grouped.childrenOf,
                                                     !.roots = grouped.roots])

\* Pass 3: Count descendants, then the return statement; an exception leaves
\* the function without an index
CountDescendants ==
    /\ indexPc = "pass3"
    /\ LET counted == countPass(allTypes, hierarchyIndex.childrenOf)
       IN  IF counted.overflow THEN IndexStep("threw", hierarchyIndex)
           ELSE IndexStep("built", [hierarchyIndex EXCEPT !.descendantCount = counted.memo,
                                                          !.totalCount = Len(allTypes)])

\* buildHierarchyIndex(types) is called on the fetched array
InitIndex ==
    /\ TreeAtRest
    /\ StoreAtRest
    /\ ImportAtRest
    /\ allTypes \in FlatArrays(MaxIndexNodes)
    /\ hierarchyIndex = EmptyIndex
    /\ indexPc = "pass1"
    /\ NavAtRest

NextIndex == IndexById \/ GroupChildren \/ CountDescendants

SpecIndex == InitIndex /\ [][NextIndex]_vars

(***************************************************************************)
(* Vocabulary of the claims about the index                                *)
(***************************************************************************)
UniqueIds(records) ==
    \A i, j \in DOMAIN records : i # j => records[i].Id # records[j].Id

\* no record is a strict ancestor of itself
Acyclic(records) ==
    \A i \in DOMAIN records : records[i].Id \notin StrictDescendantIds(records, records[i].Id)

IsRoot(t) == t.Id = t.ParentId

\* C13: for an array with unique ids and an acyclic parent relation the index
\* is built; every non-root record is in childrenOf of its ParentId, each
\* list holding the non-root records of that ParentId in array order; roots
\* is the records with Id = ParentId in array order; descendantCount of a
\* record is the number of records it is a strict ancestor of
C13_IndexCorrect ==
    (indexPc \in {"built", "threw"} /\ UniqueIds(allTypes) /\ Acyclic(allTypes)) =>
        /\ indexPc = "built"
        /\ \A i \in DOMAIN allTypes :
               ~IsRoot(allTypes[i]) =>
                   /\ allTypes[i].ParentId \in DOMAIN hierarchyIndex.childrenOf
                   /\ hierarchyIndex.childrenOf[allTypes[i].ParentId] =
                          SelectSeq(allTypes, LAMBDA t :
                              ~IsRoot(t) /\ t.ParentId = allTypes[i].ParentId)
        /\ hierarchyIndex.roots = SelectSeq(allTypes, IsRoot)
        /\ \A i \in DOMAIN allTypes :
               /\ allTypes[i].Id \in DOMAIN hierarchyIndex.descendantCount
               /\ hierarchyIndex.descendantCount[allTypes[i].Id] =
                      Cardinality(StrictDescendantIds(allTypes, allTypes[i].Id))

\* C13 witness: the index of a root, its child and its grandchild has been
\* built, the root counting two descendants
C13_Witness ==
    /\ indexPc = "built"
    /\ allTypes = <<TypeRecord("A", "A"), TypeRecord("B", "A"), TypeRecord("C", "B")>>
    /\ hierarchyIndex.descendantCount["A"] = 2
    /\ hierarchyIndex.childrenOf["B"] = <<TypeRecord("C", "B")>>

\* C14: buildHierarchyIndex ends with an index for every array, one with a
\* parent cycle among non-root records included
C14_IndexTerminates == indexPc # "threw"

(***************************************************************************)
(* Vocabulary of the claims about validation and the import result         *)
(***************************************************************************)
\* the Id is missing, null or the empty string
MissingOrEmptyId(value) == missingField(value) \/ (value.t = "string" /\ value.v = "")

\* the Name or Type is missing, null, or a string with nothing but blanks
MissingOrEmptyText(value) == missingField(value) \/ (value.t = "string" /\ trim(value.v) = <<>>)

\* the node lacks a required identity field or has Children that is no array
NodeDefect(node) ==
    \/ node.kind # "object"
    \/ MissingOrEmptyId(node.Id)
    \/ MissingOrEmptyText(node.Name)
    \/ MissingOrEmptyText(node.Type)
    \/ node.Children.t \notin {"absent", "array"}

\* C21: validateImportData reports a non-empty input invalid exactly when
\* some node, at any depth, lacks a required identity field (Id, Name, Type
\* missing or empty) or has a Children value that is not an array
C21_ValidationComplete ==
    [][(importPc = "validate" /\ Len(rawData.v) > 0) =>
         IF \E i \in DOMAIN SourceNodesOf(rawData.v) : NodeDefect(SourceNodesOf(rawData.v)[i])
         THEN importPc' = "done" /\ ~importResult'[1].success
         ELSE importPc' = "buildIdMap"]_vars

\* C22: every ImportResult the handler returns has, when success is true, no
\* errors and an importedCount equal to the number of returned records, which
\* is at least 1; and when success is false, importedCount 0, no records and
\* at least one error
C22_ResultWellFormed ==
    importResult # <<>> =>
        LET result == importResult[1]
        IN  IF result.success
            THEN /\ result.errors = <<>>
                 /\ result.importedCount = Len(result.records)
                 /\ result.importedCount >= 1
            ELSE /\ result.importedCount = 0
                 /\ result.records = <<>>
                 /\ Len(result.errors) >= 1

\* C22 witness: a three-node document has been imported with one node skipped
\* as a duplicate, the result reporting the two records it returns
C22_Witness ==
    /\ importPc = "done"
    /\ Len(transformedRecords) = 3
    /\ importResult[1].success
    /\ importResult[1].importedCount = 2
    /\ Len(importResult[1].records) = 2
    /\ Len(importResult[1].warnings) = 1

(***************************************************************************)
(* Part V - maa-erp useBusinessSetup: the drill-down navigator             *)
(***************************************************************************)
MaxNavDepth == 3    \* depth of the navigation stack explored

RECURSIVE ancestorWalk(_, _, _, _)
\* the while-loop of getAncestorPath: it ends on a falsy id, on an id that is
\* not in byId and on a self-referencing node.  It keeps no set of visited
\* ids: a walk of more steps than byId has keys has repeated an id and goes
\* round for ever, which hung reports.
ancestorWalk(byId, currentId, path, steps) ==
    IF currentId = "" \/ currentId \notin DOMAIN byId THEN [path |-> path, hung |-> FALSE]
    ELSE LET node == byId[currentId]
         IN  IF node.Id = node.ParentId THEN [path |-> <<node>> \o path, hung |-> FALSE]
             ELSE IF steps > Cardinality(DOMAIN byId)
                  THEN [path |-> <<node>> \o path, hung |-> TRUE]
                  ELSE ancestorWalk(byId, node.ParentId, <<node>> \o path, steps + 1)

getAncestorPath(index, nodeId) == ancestorWalk(index.byId, nodeId, <<>>, 1)

\* a test that asks only whether the id names a node
nodeExists(index, nodeId) == nodeId \in DOMAIN index.byId

\* hasChildren of hierarchyBuilder, imported as nodeHasChildren
nodeHasChildren(index, nodeId) == Len(getOrEmpty(index.childrenOf, nodeId)) > 0

\* the breadcrumb memo: [] without an index or on an empty stack
breadcrumb(built, index, stack) ==
    IF ~built \/ Len(stack) = 0 THEN <<>>
    ELSE getAncestorPath(index, stack[Len(stack)]).path

\* Array.prototype.indexOf, 0-based, -1 when absent
indexOf(arr, x) ==
    IF \E i \in DOMAIN arr : arr[i] = x
    THEN (CHOOSE i \in DOMAIN arr : arr[i] = x /\ \A j \in 1..(i - 1) : arr[j] # x) - 1
    ELSE -1

\* drillInto: the stack afterwards; built says the index is not null
drillInto(built, index, prev, nodeId) ==
    IF ~built THEN prev
    ELSE IF ~nodeHasChildren(index, nodeId) THEN prev
    ELSE Append(prev, nodeId)

\* goBack: prev.slice(0, -1), prev itself when it is empty
goBack(prev) == IF Len(prev) = 0 THEN prev ELSE SubSeq(prev, 1, Len(prev) - 1)

\* goToBreadcrumb: crumb is the breadcrumb the callback closed over
goToBreadcrumb(crumb, prev, breadcrumbIndex) ==
    IF breadcrumbIndex < 0 THEN <<>>
    ELSE IF breadcrumbIndex + 1 \in DOMAIN crumb
    THEN LET targetId == crumb[breadcrumbIndex + 1].Id
             idx == indexOf(prev, targetId)
         IN  IF idx >= 0 THEN SubSeq(prev, 1, idx + 1) ELSE prev
    ELSE prev

(***************************************************************************)
(* Actions of the navigator                                                *)
(***************************************************************************)
\* init() has finished: the index is built, or buildHierarchyIndex threw and
\* the index stays null
Loaded == indexPc \in {"built", "threw"}

NavRun(name, id, level, next) ==
    /\ Loaded
    /\ navigationStack' = next
    /\ navOp' = [op |-> name, id |-> id, level |-> level, pre |-> navigationStack]
    /\ UNCHANGED <<allTypes, hierarchyIndex, indexPc, ancestorPath>>
    /\ UNCHANGED <<treeVars, storeVars, importVars>>

StartSetup == NavRun("startSetup", "", 0, <<>>)

DrillInto ==
    \E nodeId \in IndexParentIds :
        /\ Len(navigationStack) < MaxNavDepth
        /\ NavRun("drillInto", nodeId, 0,
                  drillInto(indexPc = "built", hierarchyIndex, navigationStack, nodeId))

GoBack == NavRun("goBack", "", 0, goBack(navigationStack))

GoToBreadcrumb ==
    \E breadcrumbIndex \in -1..MaxIndexNodes :
        NavRun("goToBreadcrumb", "", breadcrumbIndex,
               goToBreadcrumb(breadcrumb(indexPc = "built", hierarchyIndex, navigationStack),
                              navigationStack, breadcrumbIndex))

NextNav == NextIndex \/ StartSetup \/ DrillInto \/ GoBack \/ GoToBreadcrumb

\* the catalogue fetchAllTypes delivers: Id is the key of a record, so no two
\* records share one; missing parents and parent cycles are among the arrays
InitNav ==
    /\ TreeAtRest
    /\ StoreAtRest
    /\ ImportAtRest
    /\ allTypes \in {a \in FlatArrays(MaxIndexNodes) :
                       \A i, j \in DOMAIN a : i # j => a[i].Id # a[j].Id}
    /\ hierarchyIndex = EmptyIndex
    /\ indexPc = "pass1"
    /\ NavAtRest

\* the index is built from the fetched array, then the user navigates
SpecNav == InitNav /\ [][NextNav]_vars

(***************************************************************************)
(* Vocabulary of the claims about the navigator                            *)
(***************************************************************************)
\* some record of the array names id as its parent and is not a root
HasChildRecord(records, id) ==
    \E i \in DOMAIN records : records[i].ParentId = id /\ records[i].Id # records[i].ParentId

\* what drillInto and goBack may do to the stack of a loaded navigator
StackStep ==
    /\ (indexPc = "built" /\ navOp'.op = "drillInto") =>
           navigationStack' = IF HasChildRecord(allTypes, navOp'.id)
                              THEN Append(navigationStack, navOp'.id)
                              ELSE navigationStack
    /\ (navOp'.op = "goBack") =>
           navigationStack' = IF navigationStack = <<>> THEN <<>>
                              ELSE SubSeq(navigationStack, 1, Len(navigationStack) - 1)

\* C23: drillInto(id) pushes id exactly when id has a child in the index and
\* otherwise leaves the stack as it is; goBack removes exactly the top entry
\* and does nothing on an empty stack; every id on the stack has children
C23_StackDiscipline ==
    /\ [](\A i \in DOMAIN navigationStack : HasChildRecord(allTypes, navigationStack[i]))
    /\ [][StackStep]_vars

\* C23 witness: a root's child and then that child's child were drilled into,
\* and a drillInto on a record without children has left the stack as it was
C23_Witness ==
    /\ navOp.op = "drillInto"
    /\ \E i \in DOMAIN allTypes : allTypes[i].Id = navOp.id
    /\ ~HasChildRecord(allTypes, navOp.id)
    /\ navigationStack = navOp.pre
    /\ Len(navigationStack) = 2
    /\ \E i \in DOMAIN allTypes :
           allTypes[i].Id = navigationStack[2] /\ allTypes[i].ParentId = navigationStack[1]

\* C24: goToBreadcrumb(i) empties the stack for i < 0; for every valid index
\* i of the displayed breadcrumb it cuts the stack down to a prefix whose top
\* is breadcrumb[i], the position displayed afterwards
C24_BreadcrumbJump ==
    [][(indexPc = "built" /\ navOp'.op = "goToBreadcrumb") =>
         LET crumb == breadcrumb(TRUE, hierarchyIndex, navigationStack)
             i == navOp'.level
         IN  /\ i < 0 => navigationStack' = <<>>
             /\ (i >= 0 /\ i < Len(crumb)) =>
                    /\ Len(navigationStack') >= 1
                    /\ Len(navigationStack') <= Len(navigationStack)
                    /\ navigationStack' = SubSeq(navigationStack, 1, Len(navigationStack'))
                    /\ navigationStack'[Len(navigationStack')] = crumb[i + 1].Id]_vars

(***************************************************************************)
(* getAncestorPath on any index                                            *)
(***************************************************************************)
\* getAncestorPath(index, nodeId) is called and returns, or never does
GetAncestorPath ==
    \E nodeId \in IndexParentIds :
        /\ ancestorPath.pc = "idle"
        /\ LET walk == getAncestorPath(hierarchyIndex, nodeId)
           IN  ancestorPath' = [pc |-> IF walk.hung THEN "hung" ELSE "returned",
                                nodeId |-> nodeId, path |-> walk.path]
        /\ UNCHANGED <<allTypes, hierarchyIndex, indexPc, navigationStack, navOp>>
        /\ UNCHANGED <<treeVars, storeVars, importVars>>

\* an index whose byId holds the records of any flat array, parent cycles
\* and missing parents included
InitPath ==
    /\ TreeAtRest
    /\ StoreAtRest
    /\ ImportAtRest
    /\ allTypes \in FlatArrays(MaxIndexNodes)
    /\ hierarchyIndex = [EmptyIndex EXCEPT !.byId = indexById(allTypes, <<>>)]
    /\ indexPc = "idle"
    /\ NavAtRest

SpecPath == InitPath /\ [][GetAncestorPath]_vars

SiblingsAt(nodes, p) ==
    IF Len(p) = 1 THEN nodes ELSE NodeAt(nodes, SubSeq(p, 1, Len(p) - 1)).children

\* the tree with the siblings of the node at path p replaced by list
WithSiblings(nodes, p, list) ==
    IF Len(p) = 1 THEN list
    ELSE ReplaceAt(nodes, SubSeq(p, 1, Len(p) - 1),
                   [NodeAt(nodes, SubSeq(p, 1, Len(p) - 1)) EXCEPT !.children = list])

RECURSIVE SameShape(_, _)
\* the two subtrees have the same form: level by level as many children
SameShape(a, b) ==
    /\ a.level = b.level
    /\ Len(a.children) = Len(b.children)
    /\ \A i \in DOMAIN a.children : SameShape(a.children[i], b.children[i])

\* every node of the subtree has an id of its own that the tree did not hold
FreshIds(copy, tree) ==
    /\ NoDuplicateIds(<<copy>>)
    /\ IdsIn(<<copy>>) \cap IdsIn(tree) = {}

\* C25: duplicateNode(id) on an existing node leaves the original subtree as
\* it was and inserts right after it, among its siblings, a copy of the same
\* shape whose nodes all carry ids the tree did not hold before the call
C25_DuplicateFresh ==
    [][(lastOp'.op = "duplicateNode" /\ lastOp'.a \in IdsIn(root)) =>
         LET p == PathOf(root, 1, lastOp'.a)
             k == p[Len(p)]
             before == SiblingsAt(root, p)
             after == SiblingsAt(root', p)
         IN  /\ Len(after) = Len(before) + 1
             /\ after = SubSeq(before, 1, k) \o <<after[k + 1]>>
                            \o SubSeq(before, k + 1, Len(before))
             /\ root' = WithSiblings(root, p, after)
             /\ SameShape(after[k + 1], before[k])
             /\ FreshIds(after[k + 1], root)]_vars

RECURSIVE SameContent(_, _)
\* the two subtrees are equal in everything but the ids
SameContent(a, b) ==
    /\ a.name = b.name
    /\ a.level = b.level
    /\ a.expanded = b.expanded
    /\ Len(a.children) = Len(b.children)
    /\ \A i \in DOMAIN a.children : SameContent(a.children[i], b.children[i])

\* what a step may do to the clipboard, and what a paste does to the tree
ClipboardStep ==
    /\ (lastOp'.op = "copyNode" /\ lastOp'.a \in IdsIn(root)) =>
           clipboard' = <<findNode(root, lastOp'.a)[1]>>
    /\ (lastOp'.op # "copyNode") => clipboard' = clipboard
    /\ (lastOp'.op = "pasteInto" /\ clipboard # <<>> /\ lastOp'.a \in IdsIn(root)) =>
           LET p == PathOf(root, 1, lastOp'.a)
               parent == NodeAt(root, p)
               kids == NodeAt(root', p).children
               pasted == kids[Len(kids)]
           IN  /\ kids = Append(parent.children, pasted)
               /\ root' = ReplaceAt(root, p, [parent EXCEPT !.children = kids, !.expanded = TRUE])
               /\ SameContent(pasted, clipboard[1])
               /\ FreshIds(pasted, root)
               /\ \A i \in IdsIn(<<pasted>>) : i > idCounter

\* C26: the clipboard holds the subtree as it was when copyNode ran and
\* changes on no other step; every pasteInto(p) on an existing node p appends
\* as p's last child a copy of the clipboard whose ids are fresh: not in the
\* live tree and above every id handed out before, hence not in any earlier
\* paste
C26_PasteFromClipboard == [][ClipboardStep]_vars

\* the handlers that look their target up by a single id
TargetedOps == {"addChild", "addSibling", "duplicateNode", "updateNode", "pasteInto", "deleteNode"}

\* C27: a mutation whose target id is not in the live tree (for moveNode, a
\* dragId or a dropId that is not in it, at any position) changes neither the
\* live tree nor the history nor the cursor
C27_MissingTargetNoChange ==
    [][(\/ lastOp'.op \in TargetedOps /\ lastOp'.a \notin IdsIn(root)
        \/ lastOp'.op = "moveNode"
               /\ (lastOp'.a \notin IdsIn(root) \/ lastOp'.b \notin IdsIn(root)))
       => StoreUnchanged]_vars

(***************************************************************************)
(* Vocabulary of the claims about import into the store                    *)
(***************************************************************************)
\* no two records of the store share an Id
UniqueStoreIds(store) == \A i, j \in DOMAIN store : i # j => store[i].Id # store[j].Id

\* C29: importTypes(incoming, X) with a non-empty incoming removes exactly
\* the strict descendants of X and the stored records whose Id is an incoming
\* Id, keeps X and every other record as it was and in place, and appends
\* incoming in order; with pairwise distinct incoming Ids the new store holds
\* no Id twice
C29_ImportFrame ==
    [][(/\ storeOp'.n = storeOp.n + 1
        /\ storeOp'.op = "importTypes"
        /\ validRecords(storeOp'.arg) # <<>>) =>
         LET incoming == validRecords(storeOp'.arg)
             x == storeOp'.id
             gone == (IF x # "" THEN StrictDescendantIds(types, x) ELSE {}) \cup StoreIds(incoming)
         IN  /\ ~storeOp'.threw
             /\ types' = filterOut(types, gone) \o incoming
             /\ (x \in StoreIds(types) \ StoreIds(incoming)) => x \in StoreIds(types')
             /\ (UniqueStoreIds(types) /\ UniqueStoreIds(incoming)) => UniqueStoreIds(types')]_vars

(***************************************************************************)
(* The debounced save as a liveness property                               *)
(***************************************************************************)
\* the process keeps running until the pending timer fires: setTimeout(…, 500)
\* runs its callback unless clearTimeout removes it, and a removed timer is
\* replaced by a new one in the same call
MaxLiveCalls == 2  \* store mutations explored under the fairness condition

\* a mutation within the number of calls explored, or the timer firing
NextStoreLive ==
    \/ storeOp.n < MaxLiveCalls /\ AddType
    \/ storeOp.n < MaxLiveCalls /\ EditType
    \/ storeOp.n < MaxLiveCalls /\ DeleteType
    \/ storeOp.n < MaxLiveCalls /\ DeleteChildren
    \/ storeOp.n < MaxLiveCalls /\ ImportFile
    \/ SaveTimerFires

SpecStoreLive == InitStore /\ [][NextStoreLive]_vars /\ WF_vars(SaveTimerFires)

\* the store of the most recent saveToFile call is the current store
SavedCurrent == savedFile # <<>> /\ savedFile[Len(savedFile)] = types

\* a change of the store schedules a save of the changed store, and a save
\* that is issued carries the store as it is when the timer fires
SaveStep ==
    /\ types' # types => saveTimeout' = <<types'>>
    /\ savedFile' # savedFile => savedFile' = Append(savedFile, types)

\* C30: every change of the store made by a mutation leaves a timer pending
\* whose payload is the whole store after the change; a pending timer always
\* carries the current store, never an older one; and whenever a timer is
\* pending, saveToFile is eventually called with the current store and no
\* timer is left
C30_EventuallySaved ==
    /\ [][SaveStep]_vars
    /\ [](saveTimeout # <<>> => saveTimeout = <<types>>)
    /\ (saveTimeout # <<>>) ~> (saveTimeout = <<>> /\ SavedCurrent)

\* C30 witness: two saves have been issued, the later one after a mutation
\* that changed the store, carrying the store that mutation produced while the
\* earlier one carried the store before it
C30_Witness ==
    /\ Len(savedFile) = 2
    /\ storeOp.set
    /\ ~storeOp.threw
    /\ storeOp.pre # types
    /\ savedFile[1] = storeOp.pre
    /\ savedFile[2] = types
    /\ saveTimeout = <<>>

====
